---- MODULE Spec2Model ----
(***************************************************************************)
(* Gitsy: the Fast Push pipeline (MessageHandler.handleFastPushExecute and *)
(* GitOperations.handleFastPush), the pre-flight Diagnostic Engine         *)
(* (GitService.diagnoseFastPushIssues) and the dual-backend Git facade     *)
(* (GitService.push, pull, fetch, ...), modelled as state machines.        *)
(***************************************************************************)
EXTENDS Integers, Sequences, FiniteSets, TLC

VARIABLES
    repo,       \* the working copy and its remote, as Git reports them
    pc,         \* position of the running handler (of each handler, when two run)
    flow,       \* "MH": fast-push-execute message; "GO": git-action fast-push
    payload,    \* the FastPushPayload of the run, or the git-action requests
    loc,        \* the handler's locals (targetBranch, hasCommits, issue lists, ...)
    log,        \* what the run did: phases, pushes, rebases, prompts
    out,        \* what the run reported: result, flow-log status, messages
    diag,       \* the component under test outside a Fast Push run: the
                \* Diagnostic Engine (its input and Issue list), the AI
                \* pre-flight service (its settings and pending dialog),
                \* the Cache (its entries, and the clock) or the
                \* StatsRefresher (its flags and timers)
    fc          \* the call under test: a facade operation (its outcomes and
                \* paths taken), one execGit call, or one Cache call

vars == <<repo, pc, flow, payload, loc, log, out, diag, fc>>

\* ------------------------------------------------------------------ bounds
MaxAhead == 2
MaxBehind == 1
MaxMarks == 1
\* stats refreshes started outside the throttle that may overlap, and
\* follow-up timers that may be waiting
MaxDirect == 2
MaxQueued == 1
\* calls of enqueue on the request queue
MaxRequests == 4
\* flow-log entries started in a session, and advances of the clock
MaxStarts == 3
MaxTicks == 2

\* ------------------------------------------------------- program constants
\* checkForLockFiles: a lock is stale when older than 5 minutes (5 * 60 * 1000 ms)
StaleLockMinutes == 5

NoLock == -1
LockAges == {NoLock, StaleLockMinutes - 1, StaleLockMinutes, StaleLockMinutes + 1}

\* ------------------------------------------------------------ branch names
\* A name is a sequence of characters, so that the whitelist test and the
\* "Loading" prefix test of handleFastPushExecute are computed, not assumed.
Lower == {"a", "b", "c", "d", "e", "f", "g", "h", "i", "j", "k", "l", "m",
          "n", "o", "p", "q", "r", "s", "t", "u", "v", "w", "x", "y", "z"}
Upper == {"A", "B", "C", "D", "E", "F", "G", "H", "I", "J", "K", "L", "M",
          "N", "O", "P", "Q", "R", "S", "T", "U", "V", "W", "X", "Y", "Z"}
Digit == {"0", "1", "2", "3", "4", "5", "6", "7", "8", "9"}
WhitelistChars == Lower \cup Upper \cup Digit \cup {"_", "/", "-"}

Main == <<"m", "a", "i", "n">>
Dev == <<"d", "e", "v">>
Master == <<"m", "a", "s", "t", "e", "r">>
LoadingPrefix == <<"L", "o", "a", "d", "i", "n", "g">>
LoadingDots == LoadingPrefix \o <<".", ".", ".">>
EmptyName == <<>>

\* /^[a-zA-Z0-9_\/-]+$/.test(name)
MatchesWhitelist(name) ==
    /\ Len(name) > 0
    /\ \A i \in 1..Len(name) : name[i] \in WhitelistChars

StartsWith(name, prefix) ==
    /\ Len(name) >= Len(prefix)
    /\ SubSeq(name, 1, Len(prefix)) = prefix

NormalizeBranchKeepsName(b) == b

\* handleFastPushExecute: invalid or placeholder branch names default to main
NormalizeBranch(b) ==
    IF b = EmptyName \/ b = LoadingDots \/ StartsWith(b, LoadingPrefix)
       \/ ~MatchesWhitelist(b)
    THEN Main ELSE b

\* ------------------------------------------------------------------ issues
Issue(id, fixable) == [id |-> id, autoFixable |-> fixable]

BlockingMarks == {"merge-conflicts", "rebase-in-progress", "merge-in-progress",
                  "dirty-submodules"}

\* getBranchDivergence: {ahead, behind, noUpstream}; revListFails is whether
\* the final rev-list command fails (the outer catch then returns 0/0).
getBranchDivergence(r, revListFails) ==
    IF r.upstream = "unset"
    THEN [ahead |-> 0, behind |-> 0, noUpstream |-> TRUE]
    ELSE IF r.upstream = "dangling"
    THEN [ahead |-> 0, behind |-> 0, noUpstream |-> TRUE]
    ELSE IF revListFails
    THEN [ahead |-> 0, behind |-> 0, noUpstream |-> FALSE]
    ELSE [ahead |-> r.unpushed, behind |-> r.behind, noUpstream |-> FALSE]

DivergenceIssuesCountAhead(r, d) ==
    IF d.noUpstream
    THEN IF ~r.remoteBranch
         THEN <<Issue("upstream-missing", TRUE)>>
         ELSE <<Issue("upstream-broken", TRUE)>>
    ELSE IF d.ahead > 0
    THEN <<Issue("branches-diverged", TRUE)>>
    ELSE IF d.behind > 0
    THEN <<Issue("behind-remote", TRUE)>>
    ELSE <<>>

\* diagnoseFastPushIssues step 6: divergence-derived issues
DivergenceIssues(r, d) ==
    IF d.noUpstream
    THEN IF ~r.remoteBranch
         THEN <<Issue("upstream-missing", TRUE)>>
         ELSE <<Issue("upstream-broken", TRUE)>>
    ELSE IF d.ahead > 0 /\ d.behind > 0
    THEN <<Issue("branches-diverged", TRUE)>>
    ELSE IF d.behind > 0
    THEN <<Issue("behind-remote", TRUE)>>
    ELSE <<>>

\* diagnoseFastPushIssues step 8: nothing to commit and nothing to push
NothingToDoIssue(r, d) ==
    IF ~r.dirty /\ ~r.staged /\ r.hasRemote /\ d.ahead = 0
    THEN <<Issue("nothing-to-do", FALSE)>>
    ELSE <<>>

LockIssuesStaleAtThreshold(r) ==
    IF r.lockAge = NoLock THEN <<>>
    ELSE IF r.lockAge >= StaleLockMinutes
    THEN <<Issue("stale-lock", TRUE)>>
    ELSE <<Issue("active-lock", FALSE)>>

LockIssuesYoungIsStale(r) ==
    IF r.lockAge = NoLock THEN <<>>
    ELSE IF r.lockAge <= StaleLockMinutes
    THEN <<Issue("stale-lock", TRUE)>>
    ELSE <<Issue("active-lock", FALSE)>>

\* checkForLockFiles
LockIssues(r) ==
    IF r.lockAge = NoLock THEN <<>>
    ELSE IF r.lockAge > StaleLockMinutes
    THEN <<Issue("stale-lock", TRUE)>>
    ELSE <<Issue("active-lock", FALSE)>>

MarkIssue(r, m) == IF m \in r.marks THEN <<Issue(m, FALSE)>> ELSE <<>>

NoShortCircuit(r, rl1, rl2) ==
    (IF ~r.isRepo THEN <<Issue("no-repo", TRUE)>> ELSE <<>>)
    \o MarkIssue(r, "merge-conflicts")
    \o MarkIssue(r, "rebase-in-progress")
    \o MarkIssue(r, "merge-in-progress")
    \o LockIssues(r)

\* diagnoseFastPushIssues: the ordered Issue list for repository state r
diagnoseFastPushIssues(r, rl1, rl2) ==
    IF ~r.isRepo THEN <<Issue("no-repo", TRUE)>>
    ELSE MarkIssue(r, "merge-conflicts")
         \o MarkIssue(r, "rebase-in-progress")
         \o MarkIssue(r, "merge-in-progress")
         \o (IF ~r.hasRemote THEN <<Issue("no-remote", TRUE)>>
             ELSE DivergenceIssues(r, getBranchDivergence(r, rl1)))
         \o MarkIssue(r, "dirty-submodules")
         \o NothingToDoIssue(r, getBranchDivergence(r, rl2))
         \o (IF r.detached THEN <<Issue("detached-head", TRUE)>> ELSE <<>>)
         \o LockIssues(r)

\* diagnoseFastPushIssues: the GitService calls one run makes, in order; the
\* repository probe comes first and is the only call for a non-repository
DiagnosticCalls(r, rl1) ==
    IF ~r.isRepo THEN <<"isRepo">>
    ELSE <<"isRepo", "getConflicts", "getRebaseStatus", "getMergeStatus",
           "getRemote">>
         \o (IF ~r.hasRemote THEN <<>>
             ELSE IF getBranchDivergence(r, rl1).noUpstream
             THEN <<"getBranchDivergence", "getCurrentBranch", "hasRemoteBranch">>
             ELSE <<"getBranchDivergence">>)
         \o <<"getDirtySubmodules", "isClean", "getStagedFiles">>
         \o (IF ~r.dirty /\ ~r.staged /\ r.hasRemote
             THEN <<"getBranchDivergence">> ELSE <<>>)
         \o <<"symbolic-ref", "checkForLockFiles">>

Ids(issues) == {issues[i].id : i \in 1..Len(issues)}

Range(s) == {s[i] : i \in 1..Len(s)}

\* ---------------------------------------------------------- error messages
\* An error message is the set of phrases its text includes, so that the
\* String.includes() classifications below are computed on the message.
NothingToCommitMsg == {"nothing to commit", "working tree clean"}
HookDeclinedMsg == {"pre-commit hook failed"}
RejectedMsg == {"rejected", "fetch first", "failed to push"}
NonFastForwardMsg == {"rejected", "non-fast-forward", "failed to push"}
AuthFailedMsg == {"Authentication failed"}
RebaseConflictMsg == {"could not apply", "conflict"}
NoMsg == {}

PushFailMsgs == {RejectedMsg, NonFastForwardMsg, AuthFailedMsg}

\* handleFastPushExecute / handleFastPush: the tolerated commit failures
IsNothingToCommit(msg) ==
    \/ "nothing to commit" \in msg
    \/ "working tree clean" \in msg
    \/ "no changes added to commit" \in msg
    \/ "nothing added to commit" \in msg

IsRejectionAny(msg) == TRUE

\* handleFastPushExecute / handleFastPush: the push failures that get the offer
IsRejection(msg) ==
    \/ "rejected" \in msg
    \/ "non-fast-forward" \in msg
    \/ "fetch first" \in msg
    \/ "failed to push" \in msg

\* ------------------------------------------------------------ repositories
NotARepo(dirty) ==
    [isRepo |-> FALSE, hasRemote |-> FALSE, hasCommits |-> FALSE,
     dirty |-> dirty, staged |-> FALSE, unpushed |-> 0, behind |-> 0,
     upstream |-> "unset", remoteBranch |-> FALSE, branch |-> Master,
     detached |-> FALSE, lockAge |-> NoLock, marks |-> {}, commits |-> 0]

\* A repository without commits: HEAD does not resolve, no upstream can be set.
FreshRepos ==
    {[isRepo |-> TRUE, hasRemote |-> hr, hasCommits |-> FALSE,
      dirty |-> d, staged |-> st, unpushed |-> 0, behind |-> 0,
      upstream |-> "unset", remoteBranch |-> FALSE, branch |-> Master,
      detached |-> FALSE, lockAge |-> NoLock, marks |-> {}, commits |-> 0] :
        hr \in BOOLEAN, d \in BOOLEAN, st \in BOOLEAN}

\* A repository with commits.  upstream: "valid" (configured, ref resolves),
\* "unset" (never configured), "dangling" (configured, ref does not resolve).
\* remoteBranch: origin has a branch of the current branch's name.
CommittedRepos ==
    {r \in [isRepo : {TRUE}, hasRemote : BOOLEAN, hasCommits : {TRUE},
            dirty : BOOLEAN, staged : BOOLEAN, unpushed : 0..MaxAhead,
            behind : 0..MaxBehind, upstream : {"valid", "unset", "dangling"},
            remoteBranch : BOOLEAN, branch : {Main, Dev},
            detached : {FALSE}, lockAge : {NoLock}, marks : {{}},
            commits : {0}] :
        /\ r.upstream = "valid" => r.remoteBranch /\ r.hasRemote
        /\ ~r.hasRemote => ~r.remoteBranch /\ r.upstream = "unset"
        /\ ~r.remoteBranch => r.behind = 0 /\ r.unpushed = 1}

\* What one run of the diagnostics observes of the volatile repository facts.
Observations ==
    {o \in [marks : SUBSET BlockingMarks, detached : BOOLEAN, lockAge : LockAges] :
        Cardinality(o.marks) <= MaxMarks}

Observe(r, o) ==
    [r EXCEPT !.marks = o.marks, !.detached = o.detached /\ r.hasCommits,
              !.lockAge = o.lockAge]

\* --------------------------------------------------------- Fast Push: state
PayloadBranches == {Main, Dev, LoadingDots}
Payloads == [branch : PayloadBranches, remote : {"none", "url", "new"}]
NoPayload == [branch |-> Main, remote |-> "none"]

Phases == <<"Init", "EnsureRemote", "ResolveHasCommits", "EnsureTargetBranch",
            "Diagnose", "Remediate", "StageAll", "Commit",
            "RenameBranchToTarget", "Push">>

PhaseIndex ==
    [p \in {Phases[i] : i \in 1..Len(Phases)} |->
        CHOOSE i \in 1..Len(Phases) : Phases[i] = p]

PhaseRank(p) == PhaseIndex[p]

\* the operation handleFixableIssue is about to await: consent is whether the
\* user gave the accept choice of that issue's prompt, lockAge the age of the
\* index.lock file removeStaleLockFile finds (NoLock: it finds none)
Fix(op, id, consent, lockAge) ==
    [op |-> op, issue |-> id, consent |-> consent, lockAge |-> lockAge]

NoFix == Fix("none", "none", FALSE, NoLock)

NoLoc == [targetBranch |-> EmptyName, hasCommits |-> TRUE,
          blocking |-> <<>>, fixable |-> <<>>, fix |-> NoFix,
          pushErr |-> NoMsg]

NoLog == [phases |-> <<>>, pushes |-> 0, rebases |-> 0, errs |-> {},
          declined |-> FALSE, fedNothingToDo |-> FALSE,
          lateDecision |-> "none", tolerated |-> FALSE]

NoOut == [started |-> FALSE, result |-> "none", reason |-> NoMsg,
          flowStatus |-> "none", loading |-> FALSE, shown |-> {},
          done |-> FALSE]

NoDiag == [input |-> NotARepo(FALSE), issues |-> <<>>, calls |-> <<>>,
           divergence |-> [ahead |-> 0, behind |-> 0, noUpstream |-> FALSE],
           ran |-> FALSE, input2 |-> NotARepo(FALSE), issues2 |-> <<>>,
           again |-> FALSE]
NoCall == [op |-> "none"]

InitFastPush ==
    /\ repo \in {NotARepo(d) : d \in BOOLEAN} \cup FreshRepos \cup CommittedRepos
    /\ flow \in {"MH", "GO"}
    /\ payload \in IF flow = "MH" THEN Payloads ELSE {NoPayload}
    /\ pc = "preflight"
    /\ loc = NoLoc
    /\ log = NoLog
    /\ out = NoOut
    /\ diag = NoDiag
    /\ fc = NoCall

\* ----------------------------------------------------- Fast Push: outcomes
Err(step, msg) == [step |-> step, msg |-> msg]

Phase(l, p) == [l EXCEPT !.phases = Append(@, p)]

\* The handler threw: MessageHandler's catch block shows the error and
\* completes the flow entry as 'failed'; the finally block clears loading.
Throw(l, step, msg) ==
    /\ pc' = "end"
    /\ log' = [l EXCEPT !.errs = @ \cup {Err(step, msg)}]
    /\ out' = [out EXCEPT !.result = "failure", !.reason = msg,
                          !.flowStatus = "failed", !.loading = FALSE,
                          !.shown = @ \cup {msg}]

\* The progress callback returned without throwing: completeEntry('success').
ReturnEarly(l, shownMsgs) ==
    /\ pc' = "end"
    /\ log' = l
    /\ out' = [out EXCEPT !.result = "success", !.flowStatus = "success",
                          !.loading = FALSE, !.shown = @ \cup shownMsgs]

CancelledMsg == {"Fast Push cancelled - unresolved issues remain"}
CommitMessageRequiredMsg == {"Commit message required"}
NotARepoCancelledMsg == {"Operation cancelled - not a git repository"}
PushCancelledMsg == {"Push cancelled by user after rejection"}
InitFailedMsg == {"init failed"}
LoginRequiredMsg == {"GitHub login required to create repo"}
CreateRepoFailedMsg == {"create repository failed"}
SetRemoteFailedMsg == {"Failed to set remote"}
CheckoutFailedMsg == {"checkout failed"}
StageFailedMsg == {"unable to index file"}
RenameFailedMsg == {"branch rename failed"}

\* The handler threw without a Git operation having failed (a validation or a
\* user decision): same catch block as Throw.
Abort(l, msg) ==
    /\ pc' = "end"
    /\ log' = l
    /\ out' = [out EXCEPT !.result = "failure", !.reason = msg,
                          !.flowStatus = "failed", !.loading = FALSE,
                          !.shown = @ \cup {msg}]

\* Push succeeded: 'Fast Push completed successfully', completeEntry('success').
Complete(l) ==
    /\ pc' = "end"
    /\ log' = l
    /\ out' = [out EXCEPT !.result = "success", !.flowStatus = "success",
                          !.loading = FALSE, !.done = TRUE]

\* ------------------------------------------------------ Fast Push: actions
\* handleFastPushExecute 331-352 / handleGitAction 146-178: the AI pre-flight
\* dialog; Cancel returns before the flow entry is started.
Preflight ==
    /\ pc = "preflight"
    /\ \E answer \in {"skipped", "proceed", "cancel"} :
        IF answer = "cancel"
        THEN /\ pc' = "end"
             /\ out' = [out EXCEPT !.loading = FALSE]
        ELSE /\ pc' = "isRepo"
             /\ out' = [out EXCEPT !.started = TRUE, !.flowStatus = "running",
                                   !.loading = TRUE]
    /\ UNCHANGED <<repo, flow, payload, loc, log, diag, fc>>

\* handleFastPushExecute step 1 / executeGitAction 65-77: not a repository
CheckRepo ==
    /\ pc = "isRepo"
    /\ IF repo.isRepo
       THEN /\ pc' = IF flow = "MH" THEN "createRepo" ELSE "message"
            /\ UNCHANGED <<repo, log, out>>
       ELSE \E accept \in BOOLEAN, ok \in BOOLEAN :
            IF ~accept
            THEN /\ UNCHANGED repo
                 /\ IF flow = "MH" THEN ReturnEarly(log, {})
                    ELSE Abort(log, NotARepoCancelledMsg)
            ELSE IF ~ok
            THEN /\ UNCHANGED repo
                 /\ Throw(Phase(log, "Init"), "init", InitFailedMsg)
            ELSE /\ repo' = [repo EXCEPT !.isRepo = TRUE]
                 /\ IF flow = "MH"
                    THEN /\ pc' = "createRepo"
                         /\ log' = Phase(log, "Init")
                         /\ UNCHANGED out
                    ELSE ReturnEarly(Phase(log, "Init"), {})
    /\ UNCHANGED <<flow, payload, loc, diag, fc>>

\* handleFastPushExecute step 2, 370-388: normalise the branch, create the
\* GitHub repository for repoType 'new'
CreateRepo ==
    /\ pc = "createRepo"
    /\ flow = "MH"
    /\ loc' = [loc EXCEPT !.targetBranch = NormalizeBranch(payload.branch)]
    /\ IF payload.remote = "new"
       THEN \E outcome \in {"ok", "no-token", "failed"} :
            CASE outcome = "ok" ->
                    /\ pc' = "setRemote"
                    /\ UNCHANGED <<log, out>>
              [] outcome = "no-token" -> Abort(log, LoginRequiredMsg)
              [] outcome = "failed" ->
                    Throw(Phase(log, "EnsureRemote"), "create-repo", CreateRepoFailedMsg)
       ELSE /\ pc' = "setRemote"
            /\ UNCHANGED <<log, out>>
    /\ UNCHANGED <<repo, flow, payload, diag, fc>>

\* handleFastPushExecute 389-392: setRemote when a remote URL is known
SetRemote ==
    /\ pc = "setRemote"
    /\ IF payload.remote \in {"url", "new"}
       THEN \E ok \in BOOLEAN :
            IF ok
            THEN /\ repo' = [repo EXCEPT !.hasRemote = TRUE]
                 /\ pc' = "probe"
                 /\ log' = Phase(log, "EnsureRemote")
                 /\ UNCHANGED out
            ELSE /\ UNCHANGED repo
                 /\ Throw(Phase(log, "EnsureRemote"), "set-remote", SetRemoteFailedMsg)
       ELSE /\ pc' = "probe"
            /\ UNCHANGED <<repo, log, out>>
    /\ UNCHANGED <<flow, payload, loc, diag, fc>>

\* handleFastPushExecute step 3, 393-400: does HEAD resolve?
ResolveHasCommits ==
    /\ pc = "probe"
    /\ loc' = [loc EXCEPT !.hasCommits = repo.hasCommits]
    /\ log' = Phase(log, "ResolveHasCommits")
    /\ pc' = "branch"
    /\ UNCHANGED <<repo, flow, payload, out, diag, fc>>

\* handleFastPushExecute step 4, 401-414: switch to, or create, the target
\* branch; the target branch is taken to have the tracking state of the
\* branch it replaces, except that a created branch has no upstream.
EnsureTargetBranch ==
    /\ pc = "branch"
    /\ IF loc.hasCommits /\ repo.branch # loc.targetBranch
       THEN \E hasLocal \in BOOLEAN, ok \in BOOLEAN :
            IF ~ok
            THEN /\ UNCHANGED repo
                 /\ Throw(Phase(log, "EnsureTargetBranch"),
                          IF hasLocal THEN "switch-branch" ELSE "create-branch",
                          CheckoutFailedMsg)
            ELSE /\ repo' = IF hasLocal
                            THEN [repo EXCEPT !.branch = loc.targetBranch]
                            ELSE [repo EXCEPT !.branch = loc.targetBranch,
                                              !.upstream = "unset"]
                 /\ pc' = "diagnose"
                 /\ log' = Phase(log, "EnsureTargetBranch")
                 /\ UNCHANGED out
       ELSE /\ pc' = "diagnose"
            /\ UNCHANGED <<repo, log, out>>
    /\ UNCHANGED <<flow, payload, loc, diag, fc>>

\* handleFastPush 121-127: the commit message input box
AskMessage ==
    /\ pc = "message"
    /\ flow = "GO"
    /\ \E given \in BOOLEAN :
        IF given
        THEN /\ pc' = "diagnose"
             /\ UNCHANGED <<log, out>>
        ELSE Abort(log, CommitMessageRequiredMsg)
    /\ UNCHANGED <<repo, flow, payload, loc, diag, fc>>

\* handleFastPushExecute 419-427: the issues fed to remediation
RelevantIssues(issues, hasCommits) ==
    LET Keep(i) ==
            /\ i.id \notin {"no-repo", "no-remote"}
            /\ hasCommits \/ i.id \notin {"detached-head", "upstream-missing",
                                          "upstream-broken", "nothing-to-do"}
    IN SelectSeq(issues, Keep)

\* resolveIssuesInteractively 506-507: blocking issues, then auto-fixable ones
BlockingOf(issues) == LET IsBlocking(i) == ~i.autoFixable IN SelectSeq(issues, IsBlocking)
FixableOf(issues) == LET IsFixable(i) == i.autoFixable IN SelectSeq(issues, IsFixable)

\* handleFastPushExecute step 5 / handleFastPush 129-136: run the diagnostics
Diagnose ==
    /\ pc = "diagnose"
    /\ \E o \in Observations, rl1 \in BOOLEAN, rl2 \in BOOLEAN :
        LET issues == diagnoseFastPushIssues(Observe(repo, o), rl1, rl2)
            relevant == IF flow = "MH" THEN RelevantIssues(issues, loc.hasCommits)
                        ELSE issues
        IN /\ loc' = [loc EXCEPT !.blocking = BlockingOf(relevant),
                                 !.fixable = FixableOf(relevant)]
           /\ log' = [Phase(log, "Diagnose") EXCEPT
                        !.fedNothingToDo = "nothing-to-do" \in Ids(relevant)]
           /\ pc' = IF relevant = <<>> THEN "stage" ELSE "remediate"
    /\ UNCHANGED <<repo, flow, payload, out, diag, fc>>

\* resolveIssuesInteractively returned false: handleFastPushExecute 430-433
\* warns and returns; handleFastPush 133-135 throws.
CancelRun(l, shownMsgs) ==
    /\ pc' = "end"
    /\ log' = l
    /\ out' = IF flow = "MH"
              THEN [out EXCEPT !.result = "success", !.flowStatus = "success",
                               !.loading = FALSE,
                               !.shown = @ \cup shownMsgs \cup {CancelledMsg}]
              ELSE [out EXCEPT !.result = "failure", !.reason = CancelledMsg,
                               !.flowStatus = "failed", !.loading = FALSE,
                               !.shown = @ \cup shownMsgs \cup {CancelledMsg}]

NextIssueSkipsRest(nb, nf) ==
    /\ loc' = [loc EXCEPT !.blocking = nb, !.fixable = nf]
    /\ pc' = "stage"

\* the issue was resolved: on to the next one, or to StageAll after the last
NextIssue(nb, nf) ==
    /\ loc' = [loc EXCEPT !.blocking = nb, !.fixable = nf]
    /\ pc' = IF nb = <<>> /\ nf = <<>> THEN "stage" ELSE "remediate"

Declined(l) == [l EXCEPT !.declined = TRUE]

BlockingAlwaysAccepted(answer) == TRUE

\* resolveIssuesInteractively 509-517: one blocking issue, two answers
BlockingAccepted(answer) == answer = "I Fixed It - Continue"

RemediateBlocking ==
    /\ pc = "remediate"
    /\ loc.blocking # <<>>
    /\ \E answer \in {"I Fixed It - Continue", "Cancel Fast Push", "dismissed"} :
        LET l == IF answer = "I Fixed It - Continue"
                 THEN Phase(log, "Remediate")
                 ELSE Declined(Phase(log, "Remediate"))
        IN IF BlockingAccepted(answer)
           THEN /\ NextIssue(Tail(loc.blocking), loc.fixable)
                /\ log' = l
                /\ UNCHANGED out
           ELSE /\ CancelRun(l, {})
                /\ UNCHANGED loc
    /\ UNCHANGED <<repo, flow, payload, diag, fc>>

LockRemoveFailedMsg == {"Failed to remove lock file"}
NothingToPushMsg == {"Nothing to push"}
FixUpstreamFailedMsg == {"Failed to fix upstream"}

\* handleFixableIssue: the GitService operation that resolves an issue
FixOperation(id) ==
    CASE id \in {"branches-diverged", "behind-remote"} -> "pullRebase"
      [] id = "detached-head" -> "createBranchFromDetachedHead"
      [] id = "stale-lock" -> "removeStaleLockFile"
      [] id = "upstream-broken" -> "fixUpstreamTracking"
      [] id = "no-repo" /\ flow = "GO" -> "init"
      [] id = "no-remote" /\ flow = "GO" -> "setRemote"
      [] OTHER -> "none"

FixAssumedAccepted(accept) == TRUE

\* handleFixableIssue: the operation runs only inside if (choice === <accept>)
FixAccepted(accept) == accept

BlockingNeedNotBeDone == TRUE

\* resolveIssuesInteractively: the loop over fixable issues follows the loop
\* over blocking issues
BlockingDone == loc.blocking = <<>>

\* handleFixableIssue: the prompt of one auto-fixable issue.  Any answer but
\* the accept choice returns false; nothing-to-do returns false whatever the
\* answer; an accepted issue without operation is resolved at once.
RemediateFixable ==
    /\ pc = "remediate"
    /\ BlockingDone
    /\ loc.fixable # <<>>
    /\ \E accept \in BOOLEAN, now \in LockAges :
       LET id == Head(loc.fixable).id
           l == Phase(log, "Remediate")
       IN IF id = "nothing-to-do"
          THEN CancelRun(l, {NothingToPushMsg}) /\ UNCHANGED loc
          ELSE IF FixOperation(id) = "none"
          THEN IF accept
               THEN /\ NextIssue(loc.blocking, Tail(loc.fixable))
                    /\ log' = l
                    /\ UNCHANGED out
               ELSE CancelRun(Declined(l), {}) /\ UNCHANGED loc
          ELSE IF FixAccepted(accept)
          THEN /\ pc' = "fixing"
               /\ loc' = [loc EXCEPT !.fix =
                             Fix(FixOperation(id), id, accept,
                                 IF id = "stale-lock" THEN now ELSE NoLock)]
               /\ log' = l
               /\ UNCHANGED out
          ELSE CancelRun(Declined(l), {}) /\ UNCHANGED loc
    /\ UNCHANGED <<repo, flow, payload, diag, fc>>

\* the issue's operation returned: on to the next issue
Fixed(r) ==
    /\ repo' = r
    /\ loc' = [loc EXCEPT !.fixable = Tail(@), !.fix = NoFix]
    /\ pc' = IF loc.blocking = <<>> /\ Tail(loc.fixable) = <<>>
             THEN "stage" ELSE "remediate"
    /\ UNCHANGED <<log, out>>

\* the issue's operation failed and handleFixableIssue returned false
FixFailed(step, msg) ==
    /\ CancelRun([log EXCEPT !.errs = @ \cup {Err(step, msg)}], {msg})
    /\ loc' = [loc EXCEPT !.fix = NoFix]
    /\ UNCHANGED repo

\* the issue's operation threw out of handleFixableIssue
FixThrew(step, msg) ==
    /\ Throw(log, step, msg)
    /\ loc' = [loc EXCEPT !.fix = NoFix]
    /\ UNCHANGED repo

\* handleFixableIssue: the awaited GitService operation of the issue
ApplyFix ==
    /\ pc = "fixing"
    /\ \E ok \in BOOLEAN, name \in {Main, Dev} :
       CASE loc.fix.op = "pullRebase" ->
              IF ok THEN Fixed([repo EXCEPT !.behind = 0])
              ELSE FixFailed("rebase", RebaseConflictMsg)
         [] loc.fix.op = "createBranchFromDetachedHead" ->
              IF ok THEN Fixed([repo EXCEPT !.branch = name, !.upstream = "unset"])
              ELSE FixThrew("create-branch", CheckoutFailedMsg)
         [] loc.fix.op = "removeStaleLockFile" ->
              IF ok /\ loc.fix.lockAge # NoLock THEN Fixed(repo)
              ELSE /\ CancelRun(log, {LockRemoveFailedMsg})
                   /\ loc' = [loc EXCEPT !.fix = NoFix]
                   /\ UNCHANGED repo
         [] loc.fix.op = "fixUpstreamTracking" ->
              IF ok THEN Fixed([repo EXCEPT !.upstream = "valid"])
              ELSE FixFailed("fix-upstream", FixUpstreamFailedMsg)
         [] loc.fix.op = "init" ->
              IF ok THEN Fixed([repo EXCEPT !.isRepo = TRUE])
              ELSE FixThrew("init", InitFailedMsg)
         [] loc.fix.op = "setRemote" ->
              IF ok THEN Fixed([repo EXCEPT !.hasRemote = TRUE])
              ELSE FixThrew("set-remote", SetRemoteFailedMsg)
    /\ UNCHANGED <<flow, payload, diag, fc>>

Min(a, b) == IF a < b THEN a ELSE b

\* handleFastPushExecute step 6 / handleFastPush 138-139: git add --all
StageAll ==
    /\ pc = "stage"
    /\ \E ok \in BOOLEAN :
        IF ok
        THEN /\ repo' = [repo EXCEPT !.staged = repo.staged \/ repo.dirty,
                                     !.dirty = FALSE]
             /\ pc' = "commit"
             /\ log' = Phase(log, "StageAll")
             /\ UNCHANGED out
        ELSE /\ UNCHANGED repo
             /\ Throw(Phase(log, "StageAll"), "stage", StageFailedMsg)
    /\ UNCHANGED <<flow, payload, loc, diag, fc>>

AfterCommitAlwaysRenames == IF flow = "MH" THEN "rename" ELSE "push"

\* handleFastPushExecute step 8: the rename happens only on a first commit
AfterCommit == IF flow = "MH" /\ ~loc.hasCommits THEN "rename" ELSE "push"

CommitToleratesNothing(msg) == FALSE

CommitToleratesAll(msg) == TRUE

\* handleFastPushExecute 443-451 / handleFastPush 144-151: which commit
\* failures are swallowed
CommitTolerated(msg) == IsNothingToCommit(msg)

\* handleFastPushExecute step 7 / handleFastPush 141-151: commit, tolerating the
\* "nothing to commit" family.  With nothing staged git commit fails with
\* "nothing to commit, working tree clean"; with staged changes it creates a
\* commit or fails for another reason (a hook, a missing identity).
Commit ==
    /\ pc = "commit"
    /\ LET l == Phase(log, "Commit")
       IN \E msg \in IF repo.staged THEN {NoMsg, HookDeclinedMsg}
                     ELSE {NothingToCommitMsg} :
          IF msg = NoMsg
          THEN /\ repo' = [repo EXCEPT !.staged = FALSE, !.hasCommits = TRUE,
                                       !.commits = @ + 1,
                                       !.unpushed = Min(@ + 1, MaxAhead)]
               /\ pc' = AfterCommit
               /\ log' = l
               /\ UNCHANGED out
          ELSE IF CommitTolerated(msg)
          THEN /\ pc' = AfterCommit
               /\ log' = [l EXCEPT !.errs = @ \cup {Err("commit", msg)},
                                   !.tolerated = TRUE]
               /\ UNCHANGED <<repo, out>>
          ELSE /\ Throw(l, "commit", msg)
               /\ UNCHANGED repo
    /\ UNCHANGED <<flow, payload, loc, diag, fc>>

\* handleFastPushExecute step 8, 452-460: git branch -M <target> after the
\* first commit; a failure is logged as non-critical and the run goes on
RenameBranch ==
    /\ pc = "rename"
    /\ \E ok \in BOOLEAN :
        IF ok
        THEN /\ repo' = [repo EXCEPT !.branch = loc.targetBranch]
             /\ log' = Phase(log, "RenameBranchToTarget")
        ELSE /\ UNCHANGED repo
             /\ log' = [Phase(log, "RenameBranchToTarget") EXCEPT
                            !.errs = @ \cup {Err("rename", RenameFailedMsg)}]
    /\ pc' = "push"
    /\ UNCHANGED <<flow, payload, loc, out, diag, fc>>

Pushed(r) == [r EXCEPT !.unpushed = 0, !.behind = 0, !.upstream = "valid",
                       !.remoteBranch = TRUE]

\* handleFastPushExecute step 9, 461-468 / handleFastPush 153-159: first push
Push ==
    /\ pc = "push"
    /\ LET l == [Phase(log, "Push") EXCEPT !.pushes = @ + 1]
       IN \E msg \in {NoMsg} \cup PushFailMsgs :
          IF msg = NoMsg
          THEN /\ repo' = Pushed(repo)
               /\ Complete(l)
               /\ UNCHANGED loc
          ELSE IF IsRejection(msg)
          THEN /\ pc' = "pushPrompt"
               /\ loc' = [loc EXCEPT !.pushErr = msg]
               /\ log' = [l EXCEPT !.errs = @ \cup {Err("push", msg)}]
               /\ UNCHANGED <<repo, out>>
          ELSE /\ Throw(l, "push", msg)
               /\ UNCHANGED <<repo, loc>>
    /\ UNCHANGED <<flow, payload, diag, fc>>

\* handleFastPushExecute 469-481 / handleFastPush 160-170: the rebase offer.
\* Declining throws 'Push cancelled by user after rejection.' in
\* MessageHandler and rethrows the push error in GitOperations.
PushPrompt ==
    /\ pc = "pushPrompt"
    /\ \E answer \in {"Pull & Retry", "Cancel", "dismissed"} :
        IF answer = "Pull & Retry"
        THEN /\ pc' = "rebase"
             /\ log' = [log EXCEPT !.lateDecision = "retry"]
             /\ UNCHANGED out
        ELSE Abort([log EXCEPT !.lateDecision = "cancel"],
                   IF flow = "MH" THEN PushCancelledMsg ELSE loc.pushErr)
    /\ UNCHANGED <<repo, flow, payload, loc, diag, fc>>

\* handleFastPushExecute 475 / handleFastPush 166: pullRebase
PullRebase ==
    /\ pc = "rebase"
    /\ LET l == [log EXCEPT !.rebases = @ + 1]
       IN \E ok \in BOOLEAN :
          IF ok
          THEN /\ repo' = [repo EXCEPT !.behind = 0]
               /\ pc' = "retry"
               /\ log' = l
               /\ UNCHANGED out
          ELSE /\ Throw(l, "rebase", RebaseConflictMsg)
               /\ UNCHANGED repo
    /\ UNCHANGED <<flow, payload, loc, diag, fc>>

RetryAgain(msg) == IF IsRejection(msg) THEN "pushPrompt" ELSE "end"

\* where a failed retry leaves the handler: it throws, whatever the error
RetryFailed(msg) == "end"

\* handleFastPushExecute 477 / handleFastPush 167: the retried push; its
\* failure is not caught
RetryPush ==
    /\ pc = "retry"
    /\ LET l == [log EXCEPT !.pushes = @ + 1]
       IN \E msg \in {NoMsg} \cup PushFailMsgs :
          IF msg = NoMsg
          THEN /\ repo' = Pushed(repo)
               /\ Complete(l)
          ELSE IF RetryFailed(msg) = "end"
          THEN /\ Throw(l, "push-retry", msg)
               /\ UNCHANGED repo
          ELSE /\ pc' = RetryFailed(msg)
               /\ log' = [l EXCEPT !.errs = @ \cup {Err("push-retry", msg)}]
               /\ UNCHANGED <<repo, out>>
    /\ UNCHANGED <<flow, payload, loc, diag, fc>>

NextFastPush ==
    \/ Preflight
    \/ CheckRepo
    \/ CreateRepo
    \/ SetRemote
    \/ ResolveHasCommits
    \/ EnsureTargetBranch
    \/ AskMessage
    \/ Diagnose
    \/ RemediateBlocking
    \/ RemediateFixable
    \/ ApplyFix
    \/ StageAll
    \/ Commit
    \/ RenameBranch
    \/ Push
    \/ PushPrompt
    \/ PullRebase
    \/ RetryPush

Next == NextFastPush

Init == InitFastPush

Spec == Init /\ [][Next]_vars

\* ------------------------------------------- Fast Push: payload branches
\* Fast Push runs over a wide range of payload branch names on a few
\* repositories: not a repository, a fresh one, and two with commits.
LoadingName == LoadingPrefix
LoadingFoo == LoadingPrefix \o <<"f", "o", "o">>
SpacedName == <<"f", "i", "x", " ", "1">>
DottedName == <<"v", "1", ".", "2">>
TildeName == <<"a", "~", "1">>
ReleaseName == <<"r", "e", "l", "/", "1", "_", "0", "-", "R", "C">>
PayloadNames == {Main, Dev, ReleaseName, EmptyName, LoadingDots, LoadingName,
                 LoadingFoo, SpacedName, DottedName, TildeName}

PayloadRepos ==
    {NotARepo(TRUE)}
        \cup {r \in FreshRepos : r.dirty /\ ~r.staged}
        \cup {r \in CommittedRepos :
                /\ r.dirty /\ ~r.staged /\ r.hasRemote /\ r.remoteBranch
                /\ r.upstream = "valid" /\ r.unpushed = 0 /\ r.behind = 0}

InitPayloads ==
    /\ repo \in PayloadRepos
    /\ flow \in {"MH", "GO"}
    /\ payload \in IF flow = "MH"
                   THEN [branch : PayloadNames, remote : {"none", "url", "new"}]
                   ELSE {NoPayload}
    /\ pc = "preflight"
    /\ loc = NoLoc
    /\ log = NoLog
    /\ out = NoOut
    /\ diag = NoDiag
    /\ fc = NoCall

PayloadSpec == InitPayloads /\ [][NextFastPush]_vars

\* ------------------------------------------------------ Diagnostic Engine
IdleFastPush ==
    /\ repo = NotARepo(FALSE)
    /\ flow = "MH"
    /\ payload = NoPayload
    /\ pc = "idle"
    /\ loc = NoLoc
    /\ log = NoLog
    /\ out = NoOut

DiagInputs ==
    {Observe(r, o) : r \in {NotARepo(d) : d \in BOOLEAN} \cup FreshRepos
                            \cup CommittedRepos,
                     o \in Observations}

InitDiag ==
    /\ IdleFastPush
    /\ diag \in {[NoDiag EXCEPT !.input = r, !.input2 = r] : r \in DiagInputs}
    /\ fc = NoCall

\* diagnoseFastPushIssues on the repository diag.input
RunDiagnostics ==
    /\ ~diag.ran
    /\ \E rl1 \in BOOLEAN, rl2 \in BOOLEAN :
        diag' = [diag EXCEPT !.issues = diagnoseFastPushIssues(diag.input, rl1, rl2),
                             !.calls = DiagnosticCalls(diag.input, rl1),
                             !.divergence = getBranchDivergence(diag.input, rl1),
                             !.ran = TRUE]
    /\ UNCHANGED <<repo, pc, flow, payload, loc, log, out, fc>>

\* checkForLockFiles: Date.now() - stat.mtimeMs grows with the clock
Aged(r, minutes) ==
    IF r.lockAge = NoLock THEN r ELSE [r EXCEPT !.lockAge = @ + minutes]

\* getBranchDivergence: git fetch brings in what the remote received meanwhile
RemoteMoved(r, behind) ==
    IF r.upstream = "valid" THEN [r EXCEPT !.behind = behind] ELSE r

\* diagnoseFastPushIssues a second time on the same, unmodified repository:
\* only the clock and the remote have moved
RunDiagnosticsAgain ==
    /\ diag.ran
    /\ ~diag.again
    /\ \E minutes \in 0..1, behind \in diag.input.behind..MaxBehind,
          rl1 \in BOOLEAN, rl2 \in BOOLEAN :
        LET r2 == RemoteMoved(Aged(diag.input, minutes), behind)
        IN diag' = [diag EXCEPT !.input2 = r2,
                                !.issues2 = diagnoseFastPushIssues(r2, rl1, rl2),
                                !.again = TRUE]
    /\ UNCHANGED <<repo, pc, flow, payload, loc, log, out, fc>>

NextDiag == RunDiagnostics \/ RunDiagnosticsAgain

DiagSpec == InitDiag /\ [][NextDiag]_vars

\* ------------------------------------------------------------ Git facade
\* What the outside world does to one facade call.
\*   gitExt: the host's Git extension, and the repositories it has detected
\*   bridgeOk: the bridge operation resolves; conflict: its error mentions a conflict
\*   cliOk: the first git command of the CLI path succeeds; cli2Ok: the second
\*   pushErr: the message of a failing git push
\*   headName: the bridge state has a HEAD name; branchKnown: rev-parse HEAD works
\*   hasLocal / hasRemoteBr: the branch exists locally / on origin
\*   showRefOk / lsRemoteOk: the git show-ref / git ls-remote probe can run
\*   valid: the argument passes the operation's own validation
\* messages of a failing git push, as the phrases they contain
NoUpstreamMsg == {"has no upstream", "no upstream", "--set-upstream"}
CliPushErrs == {NoUpstreamMsg, RejectedMsg, AuthFailedMsg}

\* paths, as character sequences
WorkspaceRoot == <<"C", ":", "\\", "w">>
SameRoot == <<"c", ":", "/", "W">>
OtherRoot == <<"c", ":", "/", "x">>
NoRepo == <<>>

\* String.toLowerCase on the characters used in paths
ToLowerCase(c) ==
    CASE c = "C" -> "c"
      [] c = "W" -> "w"
      [] c = "X" -> "x"
      [] OTHER -> c

\* getVSCodeRepo: path.replace(/\\/g, '/').toLowerCase()
NormalizePath(path) ==
    [i \in 1..Len(path) |->
        IF path[i] = "\\" THEN "/" ELSE ToLowerCase(path[i])]

RepoLists == {<<>>, <<SameRoot>>, <<OtherRoot>>, <<OtherRoot, SameRoot>>}
GitExts == {[active |-> FALSE, repositories |-> <<>>]}
               \cup {[active |-> TRUE, repositories |-> l] : l \in RepoLists}

\* getVSCodeRepo: the root of the bridge repository the facade works on: the
\* first detected repository whose normalized root equals the normalized
\* workspace root, else the first detected repository, else none
getVSCodeRepo(root, ext) ==
    IF ~ext.active \/ ext.repositories = <<>> THEN NoRepo
    ELSE LET matches == {i \in 1..Len(ext.repositories) :
                           NormalizePath(ext.repositories[i]) = NormalizePath(root)}
         IN IF matches # {}
            THEN ext.repositories[CHOOSE i \in matches : \A j \in matches : i <= j]
            ELSE ext.repositories[1]

Bound(e) == getVSCodeRepo(WorkspaceRoot, e.gitExt) # NoRepo

Envs == [gitExt : GitExts, bridgeOk : BOOLEAN, conflict : BOOLEAN,
         cliOk : BOOLEAN, cli2Ok : BOOLEAN, pushErr : CliPushErrs,
         headName : BOOLEAN, branchKnown : BOOLEAN,
         hasLocal : BOOLEAN, hasRemoteBr : BOOLEAN,
         showRefOk : BOOLEAN, lsRemoteOk : BOOLEAN, valid : BOOLEAN]

B(cmd) == <<"bridge", cmd>>
C(cmd) == <<"cli", cmd>>

Ok(calls) == [ok |-> TRUE, err |-> "none", calls |-> calls]
Failed(kind, calls) == [ok |-> FALSE, err |-> kind, calls |-> calls]

\* try the bridge when bound; the calls made and whether it served the call
BridgeTry(e, call) == IF Bound(e) THEN <<call>> ELSE <<>>
BridgeServed(e) == Bound(e) /\ e.bridgeOk

\* GitService.getCurrentBranch: bridge HEAD name, else rev-parse, else "Unknown"
FacadeCurrentBranch(e) ==
    IF Bound(e) /\ e.headName THEN Ok(<<B("state")>>)
    ELSE Ok(BridgeTry(e, B("state")) \o <<C("rev-parse")>>)

KnowsBranch(e) == (Bound(e) /\ e.headName) \/ e.branchKnown

IsNoUpstreamAny(msg) == TRUE

\* GitService.push: the test on the message of the failed git push
IsNoUpstream(msg) ==
    \/ "no upstream" \in msg
    \/ "--set-upstream" \in msg
    \/ "has no upstream" \in msg

\* GitService.push: bridge push (with set-upstream when HEAD has no upstream),
\* then git push, then git push --set-upstream origin <current branch>
FacadePush(e) ==
    LET b == BridgeTry(e, B("push"))
    IN IF BridgeServed(e) THEN Ok(b)
       ELSE IF e.cliOk THEN Ok(b \o <<C("push")>>)
       ELSE IF IsNoUpstream(e.pushErr) /\ KnowsBranch(e)
       THEN IF e.cli2Ok
            THEN Ok(b \o <<C("push"), C("push --set-upstream")>>)
            ELSE Failed("cli", b \o <<C("push"), C("push --set-upstream")>>)
       ELSE Failed("cli", b \o <<C("push")>>)

BridgeThenCli(e, bridgeCall, cliCall) ==
    LET b == BridgeTry(e, bridgeCall)
    IN IF BridgeServed(e) THEN Ok(b)
       ELSE IF e.cliOk THEN Ok(b \o <<cliCall>>)
       ELSE Failed("cli", b \o <<cliCall>>)

\* GitService.pull / GitService.fetch: a bridge failure is rethrown
BridgeOrCli(e, bridgeCall, cliCall) ==
    IF Bound(e)
    THEN IF e.bridgeOk THEN Ok(<<bridgeCall>>) ELSE Failed("bridge", <<bridgeCall>>)
    ELSE IF e.cliOk THEN Ok(<<cliCall>>) ELSE Failed("cli", <<cliCall>>)

FacadePull(e) == BridgeOrCli(e, B("pull"), C("pull"))

FacadeFetch(e) == BridgeOrCli(e, B("fetch"), C("fetch"))

\* GitService.commit: CLI only; an empty message is refused
FacadeCommit(e) ==
    IF ~e.valid THEN Failed("validation", <<>>)
    ELSE IF e.cliOk THEN Ok(<<C("commit")>>)
    ELSE Failed("cli", <<C("commit")>>)

\* GitService.stash
FacadeStash(e) == BridgeThenCli(e, B("stash"), C("stash"))

\* GitService.setRemote: git remote get-url / set-url first; when that fails,
\* bridge addRemote, then git remote add
FacadeSetRemote(e) ==
    IF ~e.valid THEN Failed("validation", <<>>)
    ELSE IF e.cliOk THEN Ok(<<C("remote set-url")>>)
    ELSE LET c == <<C("remote set-url")>> \o BridgeTry(e, B("addRemote"))
         IN IF BridgeServed(e) THEN Ok(c)
            ELSE IF e.cli2Ok THEN Ok(c \o <<C("remote add")>>)
            ELSE Failed("cli", c \o <<C("remote add")>>)

\* GitService.createBranch: the name is validated first
FacadeCreateBranch(e) ==
    IF ~e.valid THEN Failed("validation", <<>>)
    ELSE BridgeThenCli(e, B("createBranch"), C("checkout -b"))

\* GitService.hasLocalBranch / hasRemoteBranch: one git command each
HasLocalBranch == <<C("show-ref")>>
HasRemoteBranch == <<C("ls-remote")>>

\* their answers: a probe that fails for any reason answers false
hasLocalBranch(e) == e.showRefOk /\ e.hasLocal
hasRemoteBranch(e) == e.lsRemoteOk /\ e.hasRemoteBr

\* GitService.switchBranch: fetch (failures ignored), bridge checkout, CLI
\* checkout of a local branch, CLI checkout tracking the remote branch
FacadeSwitchBranch(e) ==
    LET f == IF Bound(e) THEN <<B("fetch"), B("checkout")>>
             ELSE <<C("fetch")>>
    IN IF BridgeServed(e) THEN Ok(f)
       ELSE IF hasLocalBranch(e)
       THEN IF e.cliOk THEN Ok(f \o HasLocalBranch \o <<C("checkout")>>)
            ELSE Failed("cli", f \o HasLocalBranch \o <<C("checkout")>>)
       ELSE IF hasRemoteBranch(e)
       THEN LET c == f \o HasLocalBranch \o HasRemoteBranch
                          \o <<C("checkout --track")>>
            IN IF e.cliOk THEN Ok(c) ELSE Failed("cli", c)
       ELSE Failed("not-found", f \o HasLocalBranch \o HasRemoteBranch)

\* GitService.mergeBranch: a bridge failure that mentions a conflict is
\* rethrown; any other bridge failure falls back to git merge; the push that
\* follows a merge may fail without failing the merge
FacadeMergeBranch(e) ==
    LET look == IF hasLocalBranch(e) THEN HasLocalBranch
                ELSE HasLocalBranch \o HasRemoteBranch
    IN IF ~hasLocalBranch(e) /\ ~hasRemoteBranch(e) THEN Failed("not-found", look)
       ELSE IF ~hasLocalBranch(e) /\ ~e.cli2Ok
       THEN Failed("cli", look \o <<C("checkout --track")>>)
       ELSE LET t == IF hasLocalBranch(e) THEN look
                     ELSE look \o <<C("checkout --track"), C("rev-parse")>>
                b == t \o BridgeTry(e, B("merge"))
            IN IF BridgeServed(e) THEN Ok(b \o <<B("push")>>)
               ELSE IF Bound(e) /\ e.conflict THEN Failed("conflict", b)
               ELSE IF e.cliOk
               THEN Ok(b \o <<C("merge")>> \o FacadePush(e).calls)
               ELSE Failed("cli", b \o <<C("merge")>>)

\* GitService.deleteBranch (of a branch that is not checked out)
FacadeDeleteBranch(e) == BridgeThenCli(e, B("deleteBranch"), C("branch -D"))

\* GitService.deleteRemoteBranch
FacadeDeleteRemoteBranch(e) ==
    BridgeThenCli(e, B("push :ref"), C("push --delete"))

InitFacade ==
    /\ IdleFastPush
    /\ diag = NoDiag
    /\ fc = NoCall

\* the record of one facade call: the operation, the outcomes it met, its
\* result and the backend calls it made, in order
CallRecord(op, env, res) ==
    [op |-> op, env |-> env, ok |-> res.ok, err |-> res.err, calls |-> res.calls]

CallCurrentBranch ==
    /\ fc.op = "none"
    /\ \E e \in Envs : fc' = CallRecord("currentBranch", e, FacadeCurrentBranch(e))
    /\ UNCHANGED <<repo, pc, flow, payload, loc, log, out, diag>>

CallPush ==
    /\ fc.op = "none"
    /\ \E e \in Envs : fc' = CallRecord("push", e, FacadePush(e))
    /\ UNCHANGED <<repo, pc, flow, payload, loc, log, out, diag>>

CallPull ==
    /\ fc.op = "none"
    /\ \E e \in Envs : fc' = CallRecord("pull", e, FacadePull(e))
    /\ UNCHANGED <<repo, pc, flow, payload, loc, log, out, diag>>

CallFetch ==
    /\ fc.op = "none"
    /\ \E e \in Envs : fc' = CallRecord("fetch", e, FacadeFetch(e))
    /\ UNCHANGED <<repo, pc, flow, payload, loc, log, out, diag>>

CallCommit ==
    /\ fc.op = "none"
    /\ \E e \in Envs : fc' = CallRecord("commit", e, FacadeCommit(e))
    /\ UNCHANGED <<repo, pc, flow, payload, loc, log, out, diag>>

CallStash ==
    /\ fc.op = "none"
    /\ \E e \in Envs : fc' = CallRecord("stash", e, FacadeStash(e))
    /\ UNCHANGED <<repo, pc, flow, payload, loc, log, out, diag>>

CallSetRemote ==
    /\ fc.op = "none"
    /\ \E e \in Envs : fc' = CallRecord("setRemote", e, FacadeSetRemote(e))
    /\ UNCHANGED <<repo, pc, flow, payload, loc, log, out, diag>>

CallCreateBranch ==
    /\ fc.op = "none"
    /\ \E e \in Envs : fc' = CallRecord("createBranch", e, FacadeCreateBranch(e))
    /\ UNCHANGED <<repo, pc, flow, payload, loc, log, out, diag>>

CallSwitchBranch ==
    /\ fc.op = "none"
    /\ \E e \in Envs : fc' = CallRecord("switchBranch", e, FacadeSwitchBranch(e))
    /\ UNCHANGED <<repo, pc, flow, payload, loc, log, out, diag>>

CallMergeBranch ==
    /\ fc.op = "none"
    /\ \E e \in Envs : fc' = CallRecord("mergeBranch", e, FacadeMergeBranch(e))
    /\ UNCHANGED <<repo, pc, flow, payload, loc, log, out, diag>>

CallDeleteBranch ==
    /\ fc.op = "none"
    /\ \E e \in Envs : fc' = CallRecord("deleteBranch", e, FacadeDeleteBranch(e))
    /\ UNCHANGED <<repo, pc, flow, payload, loc, log, out, diag>>

CallDeleteRemoteBranch ==
    /\ fc.op = "none"
    /\ \E e \in Envs : fc' = CallRecord("deleteRemoteBranch", e, FacadeDeleteRemoteBranch(e))
    /\ UNCHANGED <<repo, pc, flow, payload, loc, log, out, diag>>

NextFacade ==
    \/ CallCurrentBranch
    \/ CallPush
    \/ CallPull
    \/ CallFetch
    \/ CallCommit
    \/ CallStash
    \/ CallSetRemote
    \/ CallCreateBranch
    \/ CallSwitchBranch
    \/ CallMergeBranch
    \/ CallDeleteBranch
    \/ CallDeleteRemoteBranch

FacadeSpec == InitFacade /\ [][NextFacade]_vars

\* ------------------------------------------------------ Command Executor
\* execGit / execShell: retries < 2
MaxRetries == 2

\* What git wrote to stderr, as the set of phrases it includes.
TimeoutErr == {"timeout"}
ConnectionResetErr == {"Connection", "reset by peer"}
BadBranchErr == {"not a valid branch name"}
TransientErrs == {TimeoutErr, ConnectionResetErr}
SemanticErrs == {RebaseConflictMsg, RejectedMsg, BadBranchErr}

\* The words of the command line that matter to the classification: a branch
\* name, a commit message or a remote URL may hold any text.
CommandLines == {{"push"}, {"checkout", "timeout"}, {"commit", "Connection"}}

\* child_process: err.message is "Command failed: <command line>\n<stderr>"
ErrorMessage(cmd, stderr) == cmd \cup stderr

\* execGit: err.message.includes('timeout') || err.message.includes('Connection')
IsTransient(msg) == "timeout" \in msg \/ "Connection" \in msg

InitExec ==
    /\ IdleFastPush
    /\ diag = NoDiag
    /\ fc \in {[op |-> "execGit", cmd |-> c, retries |-> 0, stderrs |-> <<>>,
                status |-> "running", err |-> NoMsg] : c \in CommandLines}

\* one execution of the child process by execGit(args, retries): it succeeds,
\* or it fails and is re-executed by execGit(args, retries + 1), or it fails
\* and the call rejects; a call whose retry was rejected rejects with the
\* error of its own execution, so the caller sees the first error
Execute ==
    /\ fc.op = "execGit"
    /\ fc.status = "running"
    /\ \/ fc' = [fc EXCEPT !.status = "resolved"]
       \/ \E stderr \in TransientErrs \cup SemanticErrs :
            LET msg == ErrorMessage(fc.cmd, stderr)
                all == Append(fc.stderrs, stderr)
            IN IF fc.retries < MaxRetries /\ IsTransient(msg)
               THEN fc' = [fc EXCEPT !.retries = @ + 1, !.stderrs = all]
               ELSE fc' = [fc EXCEPT !.stderrs = all, !.status = "rejected",
                                     !.err = ErrorMessage(fc.cmd, all[1])]
    /\ UNCHANGED <<repo, pc, flow, payload, loc, log, out, diag>>

NextExec == Execute

ExecSpec == InitExec /\ [][NextExec]_vars

\* ------------------------------------------------------------------ claims
Ended == pc = "end" /\ out.started

StartedPhases == Range(log.phases)

LatePhases == {"StageAll", "Commit", "RenameBranchToTarget", "Push"}

RejectionMsgs == {RejectedMsg, NonFastForwardMsg}

\* C1: after a rejected first push and an accepted rebase offer the run does
\* one pull-with-rebase and, once that pull has completed, one further push;
\* a rejection of that push ends the run as a failure carrying the rejection
\* error; no run does more than two pushes or more than one recovery rebase.
C1_BoundedRebaseRetry ==
    /\ log.pushes <= 2
    /\ log.rebases <= 1
    /\ log.rebases = 1 =>
          /\ log.lateDecision = "retry"
          /\ \E m \in RejectionMsgs : Err("push", m) \in log.errs
    /\ log.pushes = 2 => log.rebases = 1
    /\ (pc = "end" /\ log.lateDecision = "retry") =>
          /\ log.rebases = 1
          /\ \/ log.pushes = 2
             \/ /\ log.pushes = 1
                /\ out.result = "failure"
                /\ out.reason = RebaseConflictMsg
    /\ \A m \in PushFailMsgs :
          Err("push-retry", m) \in log.errs =>
              /\ pc = "end"
              /\ log.pushes = 2
              /\ out.result = "failure"
              /\ out.reason = m

C1_Witness ==
    /\ pc = "end"
    /\ log.pushes = 2
    /\ log.rebases = 1
    /\ \E m \in RejectionMsgs : Err("push-retry", m) \in log.errs /\ out.reason = m

\* C3: once the decision-maker has given an answer other than the accept
\* choice for an issue, the run is over and has performed, and performs, no
\* StageAll, Commit, branch rename or Push.
C3_CancelAborts ==
    log.declined =>
        /\ pc = "end"
        /\ StartedPhases \cap LatePhases = {}
        /\ log.pushes = 0
        /\ repo.commits = 0
        /\ ~out.done

C3_Witness ==
    /\ log.declined
    /\ pc = "end"
    /\ "Remediate" \in StartedPhases

\* C4 (as claimed): when nothing-to-do was in the issue set fed to
\* remediation, the run never starts StageAll.
C4_NothingToDoAborts ==
    log.fedNothingToDo => "StageAll" \notin StartedPhases

\* C5 (as claimed): a run that has ended is a success exactly when Push
\* succeeded (Done) and is otherwise a failure carrying its reason.
C5_TwoTerminalStates ==
    Ended =>
        /\ out.result \in {"success", "failure"}
        /\ out.result = "success" <=> out.done
        /\ ~out.done => out.result = "failure" /\ out.reason # NoMsg

\* C6 (as claimed): once StageAll has begun, no user decision cancels the run.
C6_NoCancelAfterStage ==
    "StageAll" \in StartedPhases => log.lateDecision # "cancel"

\* C6 (amended): cancelling through remediation happens only before StageAll;
\* after StageAll has begun the only user decision is the rebase offer that
\* follows a rejected first push, and declining it ends the run as a failure;
\* every other run that began StageAll ends in Done or in the failure of an
\* operation.
C6_OnlyRebaseOfferAfterStage ==
    /\ log.declined => "StageAll" \notin StartedPhases
    /\ log.lateDecision # "none" =>
          /\ "StageAll" \in StartedPhases
          /\ log.pushes >= 1
          /\ loc.pushErr \in RejectionMsgs
          /\ Err("push", loc.pushErr) \in log.errs
    /\ log.lateDecision = "cancel" =>
          /\ pc = "end"
          /\ log.pushes = 1
          /\ out.result = "failure"
          /\ out.reason = IF flow = "MH" THEN PushCancelledMsg ELSE loc.pushErr
    /\ (Ended /\ "StageAll" \in StartedPhases /\ log.lateDecision # "cancel") =>
          \/ out.done
          \/ /\ out.result = "failure"
             /\ \E e \in log.errs : e.msg = out.reason

C6_Witness ==
    /\ log.lateDecision = "cancel"
    /\ pc = "end"
    /\ "StageAll" \in StartedPhases

\* C7: the phases of a run start in the fixed order, each at most once
\* (Remediate once per issue); EnsureTargetBranch only when HEAD resolved,
\* RenameBranchToTarget only when it did not; StageAll starts only when no
\* relevant issue is left, after Diagnose; Push only after Commit.
C7_FixedOrder ==
    /\ \A i \in 1..(Len(log.phases) - 1) :
          /\ PhaseRank(log.phases[i]) <= PhaseRank(log.phases[i + 1])
          /\ log.phases[i] = log.phases[i + 1] => log.phases[i] = "Remediate"
    /\ "EnsureTargetBranch" \in StartedPhases => loc.hasCommits
    /\ "RenameBranchToTarget" \in StartedPhases => ~loc.hasCommits
    /\ (pc = "stage" \/ "StageAll" \in StartedPhases) =>
          /\ loc.blocking = <<>> /\ loc.fixable = <<>>
          /\ "Diagnose" \in StartedPhases
    /\ "Commit" \in StartedPhases => "StageAll" \in StartedPhases
    /\ "Push" \in StartedPhases => "Commit" \in StartedPhases
    /\ (flow = "MH" /\ "Diagnose" \in StartedPhases) =>
          "ResolveHasCommits" \in StartedPhases

C7_Witness ==
    /\ out.done
    /\ flow = "MH"
    /\ {"Init", "EnsureRemote", "Remediate", "RenameBranchToTarget", "Push"}
          \subseteq StartedPhases

\* C8: a commit that fails with a "nothing to commit" message, nothing being
\* staged, does not fail the run: the run goes on to Push, no commit is
\* created, the commit error is never the reported error, and the run ends
\* as a success when that push succeeds.
C8_TolerantCommit ==
    \A e \in log.errs :
        (e.step = "commit" /\ IsNothingToCommit(e.msg)) =>
            /\ repo.commits = 0
            /\ ~repo.staged
            /\ pc \in {"rename", "push", "pushPrompt", "rebase", "retry", "end"}
            /\ out.reason # e.msg
            /\ pc = "end" => log.pushes >= 1
            /\ out.done => out.result = "success" /\ out.reason = NoMsg

C8_Witness ==
    /\ Err("commit", NothingToCommitMsg) \in log.errs
    /\ out.done
    /\ repo.commits = 0

StepFailureHandled(e) ==
    \/ e.step = "commit" /\ IsNothingToCommit(e.msg)
    \/ e.step = "push" /\ e.msg \in RejectionMsgs /\ log.lateDecision # "none"
    \/ ~out.done /\ out.result # "none" /\ e.msg \in out.shown

Reqs == {1, 2}
NoReq == 0

\* the actions of a git-action message, and the fast-push-execute message,
\* which handleFastPushExecute handles
ActionNames == {"push", "fetch", "switch-branch", "create-branch",
                "delete-branch", "fast-push", "fast-push-execute"}

\* operations made of several mutating Git commands, from staging to push
MultiStep(action) == action \in {"fast-push", "fast-push-execute"}
ProviderSettings == {"auto", "copilot", "gemini", "disabled"}

\* the requests: the first is any action, with or without a repository
\* selected; the second is a push in a selected repository
ActionRequests ==
    {q \in [Reqs -> [action : ActionNames, hasRepo : BOOLEAN]] :
        /\ q[2].action = "push"
        /\ q[2].hasRepo}

NoPreflight == [aiProvider |-> "unread", consent |-> "none", result |-> "none"]

NoAiLog == [checks |-> {}, requests |-> {}, cancelled |-> {}, executed |-> {}]

InitAction ==
    /\ repo = NotARepo(FALSE)
    /\ flow = "GA"
    /\ payload \in ActionRequests
    /\ pc = [r \in Reqs |-> "idle"]
    /\ loc = [r \in Reqs |-> NoPreflight]
    /\ log = NoAiLog
    /\ out = NoOut
    /\ diag \in [aiProvider : ProviderSettings, consentGiven : {FALSE},
                 consentStored : BOOLEAN, preflightResolver : {NoReq}]
    /\ fc = NoCall

\* runPreflightCheck returns skippedResult
Skipped(r) ==
    /\ pc' = [pc EXCEPT ![r] = "show"]
    /\ loc' = [loc EXCEPT ![r].result = "skipped"]

\* the request sent to an AI provider by the check of request r, with what
\* the provider setting and the stored consent are at that moment
AiRequest(r, provider) ==
    [req |-> r, provider |-> provider,
     disabled |-> diag.aiProvider = "disabled", consent |-> diag.consentStored]

\* handleGitAction 144-155: without a repository selection there is no
\* GitService and the pre-flight block is skipped; handleGitAction posts
\* set-loading true first (146).  handleFastPushExecute 319-324 posts
\* nothing yet, and returns when no folder is open.
ReceiveAction(r) ==
    /\ pc[r] = "idle"
    /\ IF payload[r].action = "fast-push-execute"
       THEN /\ pc' = [pc EXCEPT ![r] = IF payload[r].hasRepo THEN "setting" ELSE "done"]
            /\ UNCHANGED out
       ELSE /\ pc' = [pc EXCEPT ![r] = IF payload[r].hasRepo THEN "setting" ELSE "execute"]
            /\ out' = [out EXCEPT !.loading = TRUE]
    /\ UNCHANGED <<repo, flow, payload, loc, log, diag, fc>>

\* runPreflightCheck 312-334: the provider setting, then the stored consent
ReadSetting(r) ==
    /\ pc[r] = "setting"
    /\ log' = [log EXCEPT !.checks = @ \cup {r}]
    /\ IF diag.aiProvider = "disabled"
       THEN /\ pc' = [pc EXCEPT ![r] = "show"]
            /\ loc' = [loc EXCEPT ![r].aiProvider = diag.aiProvider,
                                  ![r].result = "skipped"]
            /\ UNCHANGED diag
       ELSE /\ loc' = [loc EXCEPT ![r].aiProvider = diag.aiProvider]
            /\ IF ~diag.consentGiven /\ ~diag.consentStored
               THEN /\ pc' = [pc EXCEPT ![r] = "consent"]
                    /\ UNCHANGED diag
               ELSE /\ pc' = [pc EXCEPT ![r] = "context"]
                    /\ diag' = [diag EXCEPT !.consentGiven = TRUE]
    /\ UNCHANGED <<repo, flow, payload, out, fc>>

ConsentAssumed(consent) == TRUE

\* runPreflightCheck 322-329: only the answer Allow lets the check go on
ConsentAllows(consent) == consent = "Allow"

\* runPreflightCheck 320-331: the answer to the one-time consent prompt
AnswerConsent(r) ==
    /\ pc[r] = "consent"
    /\ \E consent \in {"Allow", "Disable", "dismissed"} :
        IF ConsentAllows(consent)
        THEN /\ diag' = [diag EXCEPT !.consentGiven = TRUE, !.consentStored = TRUE]
             /\ pc' = [pc EXCEPT ![r] = "context"]
             /\ loc' = [loc EXCEPT ![r].consent = consent]
        ELSE /\ diag' = IF consent = "Disable"
                        THEN [diag EXCEPT !.aiProvider = "disabled"]
                        ELSE diag
             /\ pc' = [pc EXCEPT ![r] = "show"]
             /\ loc' = [loc EXCEPT ![r].consent = consent,
                                   ![r].result = "skipped"]
    /\ UNCHANGED <<repo, flow, payload, log, out, fc>>

\* runPreflightCheck 335-337: buildContext, then the first provider to try
BuildContext(r) ==
    /\ pc[r] = "context"
    /\ pc' = [pc EXCEPT ![r] = IF loc[r].aiProvider \in {"auto", "copilot"}
                               THEN "copilot" ELSE "gemini"]
    /\ UNCHANGED <<repo, flow, payload, loc, log, out, diag, fc>>

\* after the language-model path gave no result
AfterCopilot(r) ==
    IF loc[r].aiProvider = "auto"
    THEN /\ pc' = [pc EXCEPT ![r] = "gemini"]
         /\ UNCHANGED loc
    ELSE Skipped(r)

\* runPreflightCheck 337-347 and checkWithVSCodeLM: no model available
\* returns null without a request; a request answers or throws
CheckCopilot(r) ==
    /\ pc[r] = "copilot"
    /\ \E outcome \in {"no-model", "clean", "issues", "threw"} :
        /\ log' = IF outcome = "no-model" THEN log
                  ELSE [log EXCEPT !.requests = @ \cup {AiRequest(r, "copilot")}]
        /\ IF outcome \in {"clean", "issues"}
           THEN /\ pc' = [pc EXCEPT ![r] = "show"]
                /\ loc' = [loc EXCEPT ![r].result = outcome]
           ELSE AfterCopilot(r)
    /\ UNCHANGED <<repo, flow, payload, out, diag, fc>>

\* runPreflightCheck 348-360 and checkWithGemini: needs a stored API key
CheckGemini(r) ==
    /\ pc[r] = "gemini"
    /\ \E outcome \in {"no-key", "clean", "issues", "threw"} :
        /\ log' = IF outcome = "no-key" THEN log
                  ELSE [log EXCEPT !.requests = @ \cup {AiRequest(r, "gemini")}]
        /\ IF outcome \in {"clean", "issues"}
           THEN /\ pc' = [pc EXCEPT ![r] = "show"]
                /\ loc' = [loc EXCEPT ![r].result = outcome]
           ELSE Skipped(r)
    /\ UNCHANGED <<repo, flow, payload, out, diag, fc>>

\* handleGitAction 161-169 with showPreflightInWebview 449-458: a skipped
\* result or one without issues proceeds at once; otherwise the dialog is
\* posted and its resolver replaces the service's preflightResolver
ShowPreflight(r) ==
    /\ pc[r] = "show"
    /\ IF loc[r].result = "issues"
       THEN /\ pc' = [pc EXCEPT ![r] = "dialog"]
            /\ diag' = [diag EXCEPT !.preflightResolver = r]
       ELSE /\ pc' = [pc EXCEPT ![r] = "execute"]
            /\ UNCHANGED diag
    /\ UNCHANGED <<repo, flow, payload, loc, log, out, fc>>

AfterAnswerAlwaysProceeds(proceed) == "execute"

\* handleGitAction 164-168: if (!proceed) return
AfterAnswer(proceed) == IF proceed THEN "execute" ELSE "done"

\* the webview message preflight-response: resolvePreflightResponse 462-467
\* resolves the pending dialog, if any, and forgets it
PreflightResponse ==
    /\ diag.preflightResolver # NoReq
    /\ \E proceed \in BOOLEAN :
        LET r == diag.preflightResolver
        IN /\ pc' = [pc EXCEPT ![r] = AfterAnswer(proceed)]
           /\ log' = IF proceed THEN log
                     ELSE [log EXCEPT !.cancelled = @ \cup {r}]
           /\ out' = IF ~proceed /\ payload[r].action # "fast-push-execute"
                     THEN [out EXCEPT !.loading = FALSE]
                     ELSE out
    /\ diag' = [diag EXCEPT !.preflightResolver = NoReq]
    /\ UNCHANGED <<repo, flow, payload, loc, fc>>

\* the run of a Fast Push begins (handleFastPushExecute 351-436, and
\* GitOperations.handleFastPush under handleGitAction 176-199):
\* handleFastPushExecute posts set-loading true; then either the run ends
\* before it has changed anything (a declined initialisation, a cancelled
\* remediation, an error) and the finally block posts set-loading false, or
\* it stages the files and goes on to commit and push
BeginAction(r) ==
    /\ pc[r] = "execute"
    /\ MultiStep(payload[r].action)
    /\ \E staged \in BOOLEAN :
         IF staged /\ payload[r].hasRepo
         THEN /\ pc' = [pc EXCEPT ![r] = "running"]
              /\ log' = [log EXCEPT !.executed = @ \cup {r}]
              /\ out' = IF payload[r].action = "fast-push-execute"
                        THEN [out EXCEPT !.loading = TRUE]
                        ELSE out
         ELSE /\ pc' = [pc EXCEPT ![r] = "done"]
              /\ out' = [out EXCEPT !.loading = FALSE]
              /\ UNCHANGED log
    /\ UNCHANGED <<repo, flow, payload, loc, diag, fc>>

\* handleGitAction 176-199: executeGitAction runs the Git operation, the
\* last one of a Fast Push; the finally block posts set-loading false
\* (handleGitAction 200-204, handleFastPushExecute 497-500)
ExecuteAction(r) ==
    /\ \/ pc[r] = "execute" /\ ~MultiStep(payload[r].action)
       \/ pc[r] = "running"
    /\ pc' = [pc EXCEPT ![r] = "done"]
    /\ log' = [log EXCEPT !.executed = @ \cup {r}]
    /\ out' = [out EXCEPT !.loading = FALSE]
    /\ UNCHANGED <<repo, flow, payload, loc, diag, fc>>

\* configureApiKey 471-: the user picks 'Disable AI checks'
DisableProvider ==
    /\ diag.aiProvider # "disabled"
    /\ diag' = [diag EXCEPT !.aiProvider = "disabled"]
    /\ UNCHANGED <<repo, pc, flow, payload, loc, log, out, fc>>

NextAction ==
    \/ \E r \in Reqs : ReceiveAction(r)
    \/ \E r \in Reqs : ReadSetting(r)
    \/ \E r \in Reqs : AnswerConsent(r)
    \/ \E r \in Reqs : BuildContext(r)
    \/ \E r \in Reqs : CheckCopilot(r)
    \/ \E r \in Reqs : CheckGemini(r)
    \/ \E r \in Reqs : ShowPreflight(r)
    \/ PreflightResponse
    \/ \E r \in Reqs : BeginAction(r)
    \/ \E r \in Reqs : ExecuteAction(r)
    \/ DisableProvider

ActionSpec == InitAction /\ [][NextAction]_vars

\* a step of the handler of request r, the user's answers included
HandlerStep(r) ==
    \/ ReceiveAction(r)
    \/ ReadSetting(r)
    \/ AnswerConsent(r)
    \/ BuildContext(r)
    \/ CheckCopilot(r)
    \/ CheckGemini(r)
    \/ ShowPreflight(r)
    \/ BeginAction(r)
    \/ ExecuteAction(r)

\* every handler goes on while it can, and the user answers a pending
\* pre-flight dialog
ActionFairSpec ==
    /\ ActionSpec
    /\ \A r \in Reqs : WF_vars(HandlerStep(r))
    /\ WF_vars(PreflightResponse)

\* --------------------------------------------------------------- Cache
\* cache.js: a Map from key to {value, timestamp}, timestamp being the
\* instant of expiry in milliseconds.  log remembers, for each key, the
\* last set that has not been invalidated: its instant and its arguments.
Keys == {"key1", "key2"}
Values == {"value1", "value2"}
Undefined == "undefined"
NoEntry == [value |-> Undefined, timestamp |-> -1]
DefaultTTLSeconds == 1
\* the instants (Date.now(), in milliseconds) at which calls are made
Instants == {0, 999, 1000, 1001, 2000, 2001}
\* the ttlSeconds argument of set: absent, or a number of seconds
NoTtl == -1
TtlArgs == {NoTtl, 0, 1, 2}

\* set: const ttl = ttlSeconds ? ttlSeconds * 1000 : this.defaultTTL
TtlMs(ttlSeconds, defaultTTL) ==
    IF ttlSeconds # NoTtl /\ ttlSeconds # 0
    THEN ttlSeconds * 1000 ELSE defaultTTL

\* get / has: Date.now() > entry.timestamp
Expired(now, entry) == now > entry.timestamp

NoSet == [at |-> -1, ttlSeconds |-> NoTtl, value |-> Undefined]

InitCache ==
    /\ repo = NotARepo(FALSE)
    /\ flow = "none"
    /\ payload = NoPayload
    /\ pc = "idle"
    /\ loc = NoLoc
    /\ out = NoOut
    /\ diag = [cache |-> [k \in Keys |-> NoEntry],
               defaultTTL |-> DefaultTTLSeconds * 1000, now |-> 0]
    /\ log = [k \in Keys |-> NoSet]
    /\ fc = NoCall

CacheCall(op, key, result) ==
    [op |-> op, key |-> key, at |-> diag.now, result |-> result]

\* time passes
Tick ==
    /\ \E t \in Instants : t > diag.now /\ diag' = [diag EXCEPT !.now = t]
    /\ fc' = NoCall
    /\ UNCHANGED <<repo, pc, flow, payload, loc, log, out>>

CacheSet ==
    /\ \E k \in Keys, v \in Values, ttlSeconds \in TtlArgs :
        /\ diag' = [diag EXCEPT !.cache[k] =
                       [value |-> v,
                        timestamp |-> diag.now + TtlMs(ttlSeconds, diag.defaultTTL)]]
        /\ log' = [log EXCEPT ![k] = [at |-> diag.now, ttlSeconds |-> ttlSeconds,
                                      value |-> v]]
        /\ fc' = CacheCall("set", k, Undefined)
    /\ UNCHANGED <<repo, pc, flow, payload, loc, out>>

\* get and has: an expired entry is deleted and reported absent
CacheLookup(op, k, found, missing) ==
    LET entry == diag.cache[k]
    IN IF entry = NoEntry
       THEN /\ fc' = CacheCall(op, k, missing)
            /\ UNCHANGED diag
       ELSE IF Expired(diag.now, entry)
       THEN /\ fc' = CacheCall(op, k, missing)
            /\ diag' = [diag EXCEPT !.cache[k] = NoEntry]
       ELSE /\ fc' = CacheCall(op, k, found)
            /\ UNCHANGED diag

CacheGet ==
    /\ \E k \in Keys : CacheLookup("get", k, diag.cache[k].value, Undefined)
    /\ UNCHANGED <<repo, pc, flow, payload, loc, log, out>>

CacheHas ==
    /\ \E k \in Keys : CacheLookup("has", k, "true", "false")
    /\ UNCHANGED <<repo, pc, flow, payload, loc, log, out>>

CacheInvalidate ==
    /\ \E k \in Keys :
        /\ diag' = [diag EXCEPT !.cache[k] = NoEntry]
        /\ log' = [log EXCEPT ![k] = NoSet]
        /\ fc' = CacheCall("invalidate", k, Undefined)
    /\ UNCHANGED <<repo, pc, flow, payload, loc, out>>

CacheClear ==
    /\ diag' = [diag EXCEPT !.cache = [k \in Keys |-> NoEntry]]
    /\ log' = [k \in Keys |-> NoSet]
    /\ fc' = CacheCall("clear", Undefined, Undefined)
    /\ UNCHANGED <<repo, pc, flow, payload, loc, out>>

NextCache ==
    \/ Tick
    \/ CacheSet
    \/ CacheGet
    \/ CacheHas
    \/ CacheInvalidate
    \/ CacheClear

CacheSpec == InitCache /\ [][NextCache]_vars

\* ------------------------------------------------------ StatsRefresher
\* diag holds the StatsRefresher's fields: isRefreshing, pendingRefresh,
\* refreshTimeout (the one clearable timer and the forceRefresh it carries),
\* the follow-up timers set when a refresh ends with a refresh pending, and
\* whether less than MIN_REFRESH_INTERVAL has passed since the last refresh.
\* log counts the executions of refresh() in progress: the one started by
\* throttledRefresh and those started directly.  fc is the last event.
NoTimer == "none"
Timers == {NoTimer, "force", "cached"}

InitRefresher ==
    /\ repo = NotARepo(FALSE)
    /\ flow = "none"
    /\ payload = NoPayload
    /\ pc = "idle"
    /\ loc = NoLoc
    /\ out = NoOut
    /\ fc = NoCall
    /\ diag = [isRefreshing |-> FALSE, pendingRefresh |-> FALSE,
               refreshTimeout |-> NoTimer, queued |-> 0, recent |-> FALSE]
    /\ log = [throttled |-> 0, direct |-> 0]

\* scheduleRefresh 58-76: replace the debounce timer
scheduleRefresh(immediate) ==
    /\ diag' = [diag EXCEPT !.refreshTimeout =
                   IF immediate THEN "force" ELSE "cached"]
    /\ UNCHANGED log

\* file-watcher events: create / change / delete / save are immediate,
\* typing, opening a document and changing the editor are not
FileEvent ==
    /\ fc' = [op |-> "FileEvent"]
    /\ \E immediate \in BOOLEAN : scheduleRefresh(immediate)
    /\ UNCHANGED <<repo, pc, flow, payload, loc, out>>

\* Git-state events of the host's Git extension
GitStateEvent ==
    /\ fc' = [op |-> "GitStateEvent"]
    /\ scheduleRefresh(TRUE)
    /\ UNCHANGED <<repo, pc, flow, payload, loc, out>>

\* throttledRefresh 80-109, on the refresher state d
throttledRefresh(d, forceRefresh) ==
    IF d.isRefreshing
    THEN /\ diag' = [d EXCEPT !.pendingRefresh = TRUE]
         /\ UNCHANGED log
    ELSE IF d.recent
    THEN /\ diag' = [d EXCEPT !.refreshTimeout = forceRefresh]
         /\ UNCHANGED log
    ELSE /\ diag' = [d EXCEPT !.isRefreshing = TRUE]
         /\ log' = [log EXCEPT !.throttled = @ + 1]

\* the debounce timer, or the timer set by a throttledRefresh that came too
\* soon, fires
TimerFires ==
    /\ fc' = [op |-> "TimerFires"]
    /\ diag.refreshTimeout # NoTimer
    /\ throttledRefresh([diag EXCEPT !.refreshTimeout = NoTimer],
                        diag.refreshTimeout)
    /\ UNCHANGED <<repo, pc, flow, payload, loc, out>>

\* the follow-up timer of line 106 fires, 300 ms after the refresh ended
\* or later: it may find that MIN_REFRESH_INTERVAL has passed
QueuedFires ==
    /\ fc' = [op |-> "QueuedFires"]
    /\ diag.queued > 0
    /\ \E late \in BOOLEAN :
          throttledRefresh([diag EXCEPT !.queued = @ - 1,
                                        !.recent = IF late THEN FALSE ELSE @],
                           "force")
    /\ UNCHANGED <<repo, pc, flow, payload, loc, out>>

\* a refresh that ends without the follow-up of a pending request
\* (mutation of ThrottledRefreshEnds)
ThrottledRefreshEndsForgets ==
    /\ fc' = [op |-> "ThrottledRefreshEnds"]
    /\ log.throttled > 0
    /\ log' = [log EXCEPT !.throttled = @ - 1]
    /\ diag' = [diag EXCEPT !.isRefreshing = FALSE, !.recent = TRUE,
                            !.pendingRefresh = FALSE]
    /\ UNCHANGED <<repo, pc, flow, payload, loc, out>>

\* throttledRefresh 100-108: the refresh it started settles
ThrottledRefreshEnds ==
    /\ fc' = [op |-> "ThrottledRefreshEnds"]
    /\ log.throttled > 0
    /\ diag.pendingRefresh => diag.queued < MaxQueued
    /\ log' = [log EXCEPT !.throttled = @ - 1]
    /\ diag' = [diag EXCEPT !.isRefreshing = FALSE, !.recent = TRUE,
                            !.pendingRefresh = FALSE,
                            !.queued = IF diag.pendingRefresh THEN @ + 1 ELSE @]
    /\ UNCHANGED <<repo, pc, flow, payload, loc, out>>

\* MIN_REFRESH_INTERVAL (1000 ms) has passed since the last throttled
\* refresh; a follow-up timer, due after 300 ms, has fired by then
IntervalPasses ==
    /\ fc' = [op |-> "IntervalPasses"]
    /\ diag.recent
    /\ diag.queued = 0
    /\ diag' = [diag EXCEPT !.recent = FALSE]
    /\ UNCHANGED <<repo, pc, flow, payload, loc, log, out>>

\* the refreshStats callback given to the MessageHandler, and checkAuth:
\* () => this.statsRefresher.refresh(true)
DirectRefresh ==
    /\ log.direct < MaxDirect
    /\ log' = [log EXCEPT !.direct = @ + 1]
    /\ UNCHANGED diag

\* the webview message refresh-stats (MessageHandler 89-91)
RefreshMessage ==
    /\ fc' = [op |-> "RefreshMessage"]
    /\ DirectRefresh
    /\ UNCHANGED <<repo, pc, flow, payload, loc, out>>

\* a Git action completed (handleGitAction 184-192)
ActionCompleted ==
    /\ fc' = [op |-> "ActionCompleted"]
    /\ DirectRefresh
    /\ UNCHANGED <<repo, pc, flow, payload, loc, out>>

\* a refresh started directly settles
DirectRefreshEnds ==
    /\ fc' = [op |-> "DirectRefreshEnds"]
    /\ log.direct > 0
    /\ log' = [log EXCEPT !.direct = @ - 1]
    /\ UNCHANGED <<repo, pc, flow, payload, loc, out, diag>>

NextRefresher ==
    \/ FileEvent
    \/ GitStateEvent
    \/ TimerFires
    \/ QueuedFires
    \/ ThrottledRefreshEnds
    \/ IntervalPasses
    \/ RefreshMessage
    \/ ActionCompleted
    \/ DirectRefreshEnds

RefresherSpec == InitRefresher /\ [][NextRefresher]_vars

\* timers fire, time passes and a refresh in progress settles
RefresherFairSpec ==
    /\ RefresherSpec
    /\ WF_vars(TimerFires)
    /\ WF_vars(QueuedFires)
    /\ WF_vars(IntervalPasses)
    /\ WF_vars(ThrottledRefreshEnds)

\* the positions of the calls a facade call made to the given backend
BackendCalls(backend) == {i \in 1..Len(fc.calls) : fc.calls[i][1] = backend}

\* the bridge operation of the call threw (reading the bridge state cannot)
BridgeThrew ==
    /\ fc.op # "none"
    /\ Bound(fc.env)
    /\ ~fc.env.bridgeOk
    /\ \E i \in BackendCalls("bridge") : fc.calls[i][2] # "state"

\* C2 (as claimed): when the bridge call of a facade operation throws, the
\* operation goes on to the CLI path, and fails only if the CLI path fails.
C2_BridgeFailureFallsBack ==
    BridgeThrew =>
        /\ \E i \in BackendCalls("bridge") : \E j \in BackendCalls("cli") : i < j
        /\ ~fc.ok => fc.err \in {"cli", "not-found"}

\* C10 (as claimed): nothing-to-do is emitted only for a clean working tree
\* with nothing staged and, if a remote exists, no local commit left to push.
C10_NothingToDoOnlyWhenIdle ==
    (diag.ran /\ "nothing-to-do" \in Ids(diag.issues)) =>
        /\ ~diag.input.dirty
        /\ ~diag.input.staged
        /\ diag.input.hasRemote => diag.input.unpushed = 0

\* the issues whose presence follows from getBranchDivergence
DivergenceDerived == {"upstream-missing", "upstream-broken", "branches-diverged",
                      "behind-remote", "nothing-to-do"}

LockIds == {"stale-lock", "active-lock"}

Without(issues, ids) ==
    LET Keep(i) == i.id \notin ids IN SelectSeq(issues, Keep)

Only(issues, ids) ==
    LET Keep(i) == i.id \in ids IN SelectSeq(issues, Keep)

C12_ShortCircuit ==
    (diag.ran /\ ~diag.input.isRepo) =>
        /\ diag.issues = <<Issue("no-repo", TRUE)>>
        /\ diag.calls = <<"isRepo">>

C12_Witness ==
    /\ diag.ran
    /\ ~diag.input.isRepo
    /\ diag.input.lockAge # NoLock
    /\ diag.input.marks # {}

\* the issues that are false positives while HEAD does not resolve
FreshRepoFalsePositives == {"detached-head", "upstream-missing",
                            "upstream-broken", "nothing-to-do"}

\* C13 (as claimed): while HEAD does not resolve, the issues handed to
\* remediation contain none of detached-head, upstream-missing,
\* upstream-broken and nothing-to-do.
C13_FreshRepoFiltered ==
    (pc = "remediate" /\ ~repo.hasCommits) =>
        Ids(loc.blocking \o loc.fixable) \cap FreshRepoFalsePositives = {}

\* C14: with a remote and an upstream that resolves with counts (ahead,
\* behind), branches-diverged is emitted exactly when both are positive,
\* behind-remote exactly when only behind is, neither when behind is 0, and
\* never both; the counts are the repository's unless rev-list failed.
C14_DivergenceIssues ==
    (diag.ran /\ diag.input.isRepo /\ diag.input.hasRemote
        /\ ~diag.divergence.noUpstream) =>
        LET d == diag.divergence
            ids == Ids(diag.issues)
        IN /\ "branches-diverged" \in ids <=> (d.ahead > 0 /\ d.behind > 0)
           /\ "behind-remote" \in ids <=> (d.ahead = 0 /\ d.behind > 0)
           /\ d.behind = 0 => ids \cap {"branches-diverged", "behind-remote"} = {}
           /\ ~({"branches-diverged", "behind-remote"} \subseteq ids)
           /\ ids \cap {"upstream-missing", "upstream-broken"} = {}
           /\ \/ d.ahead = diag.input.unpushed /\ d.behind = diag.input.behind
              \/ d.ahead = 0 /\ d.behind = 0

C14_Witness ==
    /\ diag.ran
    /\ diag.input.hasRemote
    /\ ~diag.divergence.noUpstream
    /\ diag.divergence.ahead = MaxAhead
    /\ diag.divergence.behind = 0
    /\ diag.input.dirty
    /\ Ids(diag.issues) \cap DivergenceDerived = {}

C16_OnlyStaleLockDeleted ==
    [][(pc = "fixing" /\ loc.fix.op = "removeStaleLockFile"
          /\ loc'.fixable = Tail(loc.fixable)) =>
          /\ loc.fix.lockAge > StaleLockMinutes
          /\ loc.fix.consent]_vars

\* C17: a remediation operation is invoked for an issue only after the
\* decision-maker gave the accept choice for that same issue, the issue then
\* being the one under remediation.
C17_ConsentBeforeFix ==
    /\ pc = "fixing" =>
          /\ loc.fix.consent
          /\ loc.fixable # <<>>
          /\ loc.fix.issue = Head(loc.fixable).id
          /\ loc.fix.op = FixOperation(loc.fix.issue)
          /\ loc.fix.op # "none"
    /\ pc # "fixing" => loc.fix = NoFix

C17_Witness ==
    /\ pc = "fixing"
    /\ loc.fix.op = "pullRebase"
    /\ loc.fix.issue = "branches-diverged"
    /\ Len(loc.fixable) >= 2

\* C18: while a blocking issue is still to be presented, no step handles an
\* auto-fixable issue, invokes a remediation operation or changes the
\* repository; blocking issues are taken one at a time, in order.
C18_BlockingFirst ==
    [][loc.blocking # <<>> =>
          /\ loc'.fixable = loc.fixable
          /\ loc'.fix = NoFix
          /\ pc' # "fixing"
          /\ repo' = repo
          /\ loc'.blocking \in {loc.blocking, Tail(loc.blocking)}]_vars

C18_Witness ==
    /\ pc = "end"
    /\ log.declined
    /\ Len(loc.blocking) = 1
    /\ loc.fixable # <<>>
    /\ Len(log.phases) > 2

\* the number of times the call under test has executed its command
Executions ==
    Len(fc.stderrs) + (IF fc.status = "resolved" THEN 1 ELSE 0)

\* C19 (as claimed): a command is re-executed only after a failure of the
\* timeout / connection-reset family, is executed at most 3 times, and is
\* executed exactly once when it fails with a semantic Git error.
C19_RetriesOnlyTransient ==
    (fc.op = "execGit" /\ fc.status # "running") =>
        /\ Executions <= MaxRetries + 1
        /\ \A i \in 1..Len(fc.stderrs) :
              i < Executions => fc.stderrs[i] \in TransientErrs
        /\ (fc.stderrs # <<>> /\ fc.stderrs[1] \in SemanticErrs) =>
              Executions = 1

\* C20 (as claimed): a facade operation whose bridge call threw never
\* reports the bridge failure: when it fails, the error it reports is the
\* failure of its CLI path.
C20_CliFailureSurfaced ==
    (BridgeThrew /\ ~fc.ok) =>
        /\ fc.err \notin {"bridge", "conflict"}
        /\ BackendCalls("cli") # {}

\* the positions at which the call under test issued the given backend call
CallsOf(call) == {i \in 1..Len(fc.calls) : fc.calls[i] = call}

\* C21: a push whose bridge attempt fails goes on to a plain git push; git
\* push --set-upstream is issued only after a plain git push that failed with
\* a "no upstream" message, directly after it, and at most once per push.
C21_SetUpstreamOnlyOnNoUpstream ==
    fc.op = "push" =>
        /\ (Bound(fc.env) /\ ~fc.env.bridgeOk) =>
              \E i \in CallsOf(B("push")) : fc.calls[i + 1] = C("push")
        /\ Cardinality(CallsOf(C("push --set-upstream"))) <= 1
        /\ \A i \in CallsOf(C("push --set-upstream")) :
              /\ i > 1
              /\ fc.calls[i - 1] = C("push")
              /\ ~fc.env.cliOk
              /\ fc.env.pushErr = NoUpstreamMsg
        /\ Cardinality(CallsOf(C("push"))) <= 1

C21_Witness ==
    /\ fc.op = "push"
    /\ Bound(fc.env)
    /\ ~fc.env.bridgeOk
    /\ fc.calls = <<B("push"), C("push"), C("push --set-upstream")>>
    /\ fc.ok

\* C22 (as claimed): switchBranch tries the bridge checkout, then git checkout
\* of a branch that exists locally, then git checkout tracking a branch that
\* exists on the remote, each only when the one before did not apply; it
\* fails with branch-not-found exactly when the bridge checkout did not
\* succeed and the branch exists neither locally nor on the remote.
C22_SwitchBranchFallback ==
    fc.op = "switchBranch" =>
        /\ \A i \in CallsOf(C("checkout")) :
              /\ \A j \in CallsOf(B("checkout")) : j < i
              /\ fc.env.hasLocal
        /\ \A i \in CallsOf(C("checkout --track")) :
              /\ \A j \in CallsOf(B("checkout")) : j < i
              /\ CallsOf(C("checkout")) = {}
              /\ fc.env.hasRemoteBr
        /\ (~fc.ok /\ fc.err = "not-found") <=>
              /\ ~BridgeServed(fc.env)
              /\ ~fc.env.hasLocal
              /\ ~fc.env.hasRemoteBr

\* C23 (as claimed): a facade operation performs bridge operations only on a
\* bridge repository whose root is the operation's own repository path.
C23_BridgeBoundToOwnPath ==
    (fc.op # "none"
        /\ \E i \in BackendCalls("bridge") : fc.calls[i][2] # "state") =>
        NormalizePath(getVSCodeRepo(WorkspaceRoot, fc.env.gitExt))
            = NormalizePath(WorkspaceRoot)

\* a branch name the payload validation is meant to replace: empty, a
\* "Loading" placeholder, or with a character outside [A-Za-z0-9_/-]
InvalidName(b) ==
    \/ b = EmptyName
    \/ StartsWith(b, LoadingPrefix)
    \/ \E i \in 1..Len(b) : b[i] \notin WhitelistChars

\* the handler has passed the validation of the payload branch
BranchEstablished ==
    /\ flow = "MH"
    /\ \/ pc \notin {"preflight", "isRepo", "createRepo", "end"}
       \/ "ResolveHasCommits" \in StartedPhases

C25_ProbeDecidesBranchStep ==
    /\ "EnsureTargetBranch" \in StartedPhases =>
          /\ loc.hasCommits
          /\ flow = "MH"
          /\ "ResolveHasCommits" \in StartedPhases
          /\ "RenameBranchToTarget" \notin StartedPhases
    /\ (pc = "rename" \/ "RenameBranchToTarget" \in StartedPhases) =>
          /\ ~loc.hasCommits
          /\ flow = "MH"
          /\ "Commit" \in StartedPhases
          /\ "EnsureTargetBranch" \notin StartedPhases
    /\ (pc = "diagnose" /\ flow = "MH" /\ loc.hasCommits) =>
          repo.branch = loc.targetBranch

C25_Witness ==
    /\ Ended
    /\ out.done
    /\ ~loc.hasCommits
    /\ "RenameBranchToTarget" \in StartedPhases
    /\ payload.branch = Dev
    /\ repo.branch = Dev

\* README "No AI for simple ops"
SimpleOps == {"switch-branch", "create-branch", "delete-branch", "fetch"}

\* the requests whose pre-flight check contacted an AI provider
Analysed == {q.req : q \in log.requests}

\* C26 (as claimed): for branch switching, creation, deletion and fetch no AI
\* pre-flight analysis is run.
C26_NoAiForSimpleOps ==
    \A r \in Reqs : payload[r].action \in SimpleOps => r \notin Analysed

\* C27: an operation whose pre-flight dialog was answered Cancel is not
\* executed, then or later; an operation with a dialog is executed only
\* after the answer Proceed.
C27_CancelStopsOperation ==
    \A r \in Reqs :
        /\ r \in log.cancelled =>
              /\ pc[r] = "done"
              /\ r \notin log.executed
        /\ pc[r] = "dialog" => r \notin log.executed

C27_Witness ==
    /\ payload[1].action = "fast-push"
    /\ 1 \in log.cancelled
    /\ 1 \in Analysed
    /\ pc[1] = "done"
    /\ 2 \in log.executed

RequestedTtlMs(ttlSeconds) ==
    IF ttlSeconds = NoTtl THEN diag.defaultTTL ELSE ttlSeconds * 1000

\* the call under test is a get or a has of a key that was stored
LookupOfStored == fc.op \in {"get", "has"} /\ log[fc.key] # NoSet

Found == IF fc.op = "get" THEN fc.result = log[fc.key].value ELSE fc.result = "true"
Missing == IF fc.op = "get" THEN fc.result = Undefined ELSE fc.result = "false"

\* C29 (as claimed): get returns a stored value, and has reports it, while
\* less than its time-to-live has elapsed since the set; once the
\* time-to-live has elapsed, get returns undefined and has returns false.
C29_TtlRespected ==
    LookupOfStored =>
        IF fc.at - log[fc.key].at < RequestedTtlMs(log[fc.key].ttlSeconds)
        THEN Found ELSE Missing

\* the executions of StatsRefresher.refresh in progress
RefreshesInProgress == log.throttled + log.direct

\* C30 (as claimed): at most one stats refresh is in progress at any time,
\* whatever the source of the refresh requests.
C30_OneRefreshAtATime == RefreshesInProgress <= 1

\* ------------------------------------------------------- request queue
\* The shared RequestQueue of authService.ts.  diag holds its fields (queue,
\* running) and the number of enqueue calls so far; loc holds, per request,
\* where it is (new, queued, running, resolved, rejected) and the attempt of
\* _makeRequestWithRetry it is in; out holds what each request's promise was
\* settled with; log is the order in which requests were started; fc is the
\* last event.
maxConcurrent == 2
retries == 3
Requests == 1..MaxRequests
Unsettled == [kind |-> "none", of |-> 0]

InitQueue ==
    /\ repo = NotARepo(FALSE)
    /\ flow = "none"
    /\ payload = NoPayload
    /\ pc = "idle"
    /\ fc = NoCall
    /\ diag = [queue |-> <<>>, running |-> 0, enqueued |-> 0]
    /\ loc = [i \in Requests |-> [state |-> "new", attempt |-> 0]]
    /\ out = [i \in Requests |-> Unsettled]
    /\ log = <<>>

\* a drain that takes the newest item (mutation of shift)
pop(q) == [item |-> q[Len(q)], rest |-> SubSeq(q, 1, Len(q) - 1)]

\* this.queue.shift(), line 23
shift(q) == [item |-> Head(q), rest |-> Tail(q)]

\* a drain that starts the next item whatever is running (mutation of drain)
drainUnguarded(s) ==
    IF s.queue # <<>>
    THEN [queue |-> shift(s.queue).rest, running |-> s.running + 1,
          started |-> Append(s.started, shift(s.queue).item)]
    ELSE s

\* drain 21-35, up to its first await: one evaluation of the loop condition;
\* when it holds the head item is taken, counted and started, and the loop
\* is suspended on it
drain(s) ==
    IF s.running < maxConcurrent /\ s.queue # <<>>
    THEN [queue |-> shift(s.queue).rest, running |-> s.running + 1,
          started |-> Append(s.started, shift(s.queue).item)]
    ELSE s

\* enqueue 14-19 (makeRequest 319-321): push, then drain
Enqueue ==
    /\ diag.enqueued < MaxRequests
    /\ LET i == diag.enqueued + 1
           s == drain([queue |-> Append(diag.queue, i),
                       running |-> diag.running, started |-> <<>>])
       IN /\ diag' = [queue |-> s.queue, running |-> s.running, enqueued |-> i]
          /\ log' = log \o s.started
          /\ loc' = [loc EXCEPT ![i] =
                        IF s.started = <<i>>
                        THEN [state |-> "running", attempt |-> 1]
                        ELSE [state |-> "queued", attempt |-> 0]]
    /\ fc' = [op |-> "Enqueue"]
    /\ UNCHANGED <<repo, pc, flow, payload, out>>

\* _makeRequestWithRetry 326-341: an attempt fails with a retryable error
\* and attempts remain
AttemptRetried(i) ==
    /\ loc[i].state = "running"
    /\ loc[i].attempt < retries
    /\ loc' = [loc EXCEPT ![i].attempt = @ + 1]
    /\ fc' = [op |-> "AttemptRetried"]
    /\ UNCHANGED <<repo, pc, flow, payload, out, diag, log>>

\* drain 26-33 after item.run() has settled: the item's promise is settled,
\* running is decremented, drain() is called, and the loop condition of the
\* resumed drain is evaluated again
Settle(i, kind) ==
    /\ loc[i].state = "running"
    /\ out' = [out EXCEPT ![i] = [kind |-> kind, of |-> i]]
    /\ LET s == drain(drain([queue |-> diag.queue,
                             running |-> diag.running - 1,
                             started |-> <<>>]))
       IN /\ diag' = [diag EXCEPT !.queue = s.queue, !.running = s.running]
          /\ log' = log \o s.started
          /\ loc' = [j \in Requests |->
                        IF j = i
                        THEN [loc[i] EXCEPT !.state =
                                 IF kind = "result" THEN "resolved" ELSE "rejected"]
                        ELSE IF \E k \in 1..Len(s.started) : s.started[k] = j
                        THEN [state |-> "running", attempt |-> 1]
                        ELSE loc[j]]
    /\ UNCHANGED <<repo, pc, flow, payload>>

\* an attempt returns a result (327-328)
RequestResolves(i) ==
    /\ Settle(i, "result")
    /\ fc' = [op |-> "RequestResolves"]

\* an attempt fails and the error is not retryable, or it was the last
\* attempt (337-343)
RequestRejects(i) ==
    /\ Settle(i, "error")
    /\ fc' = [op |-> "RequestRejects"]

AttemptEnds(i) == AttemptRetried(i) \/ RequestResolves(i) \/ RequestRejects(i)

NextQueue ==
    \/ Enqueue
    \/ \E i \in Requests : AttemptRetried(i)
    \/ \E i \in Requests : RequestResolves(i)
    \/ \E i \in Requests : RequestRejects(i)

QueueSpec == InitQueue /\ [][NextQueue]_vars

\* every attempt of a running request ends
QueueFairSpec == QueueSpec /\ \A i \in Requests : WF_vars(AttemptEnds(i))

\* the requests executing
Executing == {i \in Requests : loc[i].state = "running"}

\* C31: at no time are more than 2 requests of the request queue executing,
\* however many are enqueued and in whatever order they resolve or reject.
C31_AtMostTwoExecuting ==
    /\ Cardinality(Executing) <= 2
    /\ diag.running = Cardinality(Executing)

\* two requests execute, two more wait behind them
C31_Witness ==
    /\ Cardinality(Executing) = 2
    /\ Len(diag.queue) >= 1
    /\ \E i \in Requests : loc[i].state = "rejected"

\* a request has been started / its promise has been settled
WasStarted(i) == \E k \in 1..Len(log) : log[k] = i
Settled(i) == loc[i].state \in {"resolved", "rejected"}

\* requests are started in the order they were enqueued
StartedInOrder == \A k \in 1..Len(log) : log[k] = k

\* a settled promise carries its own request's result or error, as the
\* request ended; an unsettled one carries nothing
OwnOutcome(i) ==
    CASE loc[i].state = "resolved" -> out[i] = [kind |-> "result", of |-> i]
      [] loc[i].state = "rejected" -> out[i] = [kind |-> "error", of |-> i]
      [] OTHER -> out[i] = Unsettled

\* C39: every request enqueued is eventually started, in FIFO order, and its
\* promise settles with that request's own result or error, provided every
\* running request terminates; a failing request does not block the requests
\* queued behind it.
C39_EveryRequestServed ==
    /\ [](StartedInOrder /\ \A i \in Requests : OwnOutcome(i))
    /\ \A i \in Requests : (loc[i].state = "queued") ~> WasStarted(i)
    /\ \A i \in Requests : (loc[i].state = "queued") ~> Settled(i)
    /\ [](\A i \in Requests :
             loc[i].state = "queued" => Cardinality(Executing) = maxConcurrent)

\* request 1 has just been rejected while request 2 was running: request 3,
\* which waited behind them, was started by that, and request 4 still waits
C39_Witness ==
    /\ fc.op = "RequestRejects"
    /\ loc[1].state = "rejected"
    /\ loc[2].state = "running"
    /\ loc[3] = [state |-> "running", attempt |-> 1]
    /\ loc[4].state = "queued"

\* C32 (as claimed): a flow-log entry is completed with status 'success'
\* only if the logged operation ran to successful completion; a Fast Push
\* run that ended early because the user declined repository initialisation
\* or cancelled remediation is not recorded as 'success'.
C32_SuccessOnlyWhenCompleted ==
    out.flowStatus = "success" => out.done /\ ~log.declined

\* C33 (as claimed): Push is attempted in a Fast Push run only if the
\* repository has an origin remote at that point; a run on a repository
\* without a remote whose payload supplies no remote URL does not reach
\* StageAll, Commit or Push.
C33_NoPushWithoutRemote ==
    /\ pc \in {"push", "pushPrompt", "rebase", "retry"} => repo.hasRemote
    /\ log.pushes > 0 => repo.hasRemote
    /\ ~repo.hasRemote /\ payload.remote = "none" =>
           StartedPhases \cap LatePhases = {}

\* C34 (as claimed): whenever Push is attempted in a Fast Push run, the
\* checked-out branch is the normalised target branch of the payload.
C34_PushOnTargetBranch ==
    flow = "MH" /\ pc \in {"push", "retry"} =>
        /\ loc.targetBranch = NormalizeBranch(payload.branch)
        /\ repo.branch = loc.targetBranch

\* C36 (as claimed): every pre-flight dialog shown is resolved by the
\* user's response to it; when two operations have dialogs pending at the
\* same time each still receives its answer, and none waits forever.
C36_EveryDialogAnswered ==
    \A r \in Reqs : (pc[r] = "dialog") ~> (pc[r] # "dialog")

\* the step performs a mutating Git operation of request r
Mutates(r) ==
    /\ pc[r] \in {"execute", "running"}
    /\ pc'[r] # pc[r]
    /\ r \in log'.executed

\* C35 (as claimed): the mutating steps of two Fast Push or Git-action
\* invocations on the same repository never interleave: while one is between
\* its first and its last mutating Git operation, no other invocation
\* performs a mutating Git operation on that repository.
C35_NoInterleavedMutation ==
    [][\A r \in Reqs :
          Mutates(r) /\ payload[r].hasRepo =>
              \A q \in Reqs \ {r} : ~(pc[q] = "running" /\ payload[q].hasRepo)]_vars

\* C37 (as claimed): every set-loading true message posted for a Git action
\* or a Fast Push is eventually followed by a set-loading false message,
\* whether the operation succeeds, fails, or is cancelled.
C37_LoadingEventuallyCleared == out.loading ~> ~out.loading

MAX_ENTRIES == 150

FlowEntry(id, startTime, status) ==
    [id |-> id, startTime |-> startTime, status |-> status]

\* the log after k operations that completed, one per instant
StoredLog(k) == [i \in 1..k |-> FlowEntry(k + 1 - i, k + 1 - i, "success")]

StoredLengths == {0, MAX_ENTRIES - 2, MAX_ENTRIES - 1, MAX_ENTRIES}

InitFlow ==
    /\ repo = NotARepo(FALSE)
    /\ flow = "none"
    /\ payload = NoPayload
    /\ pc = "idle"
    /\ out = NoOut
    /\ fc = NoCall
    /\ loc = {}
    /\ \E k \in StoredLengths :
          /\ log = StoredLog(k)
          /\ diag = [now |-> k, started |-> k, first |-> k]

\* a prune that keeps everything (mutation of prune)
pruneKeepsAll(entries) == entries

\* prune 79-81: entries.slice(0, MAX_ENTRIES)
prune(entries) ==
    SubSeq(entries, 1, IF Len(entries) < MAX_ENTRIES THEN Len(entries) ELSE MAX_ENTRIES)

\* Date.now() advances
FlowTick ==
    /\ diag.now < diag.first + MaxTicks
    /\ diag' = [diag EXCEPT !.now = @ + 1]
    /\ fc' = [op |-> "tick", id |-> 0]
    /\ UNCHANGED <<repo, pc, flow, payload, loc, log, out>>

\* startEntry 15-32: unshift the new entry, prune, save
StartEntry ==
    /\ diag.started < diag.first + MaxStarts
    /\ LET id == diag.started + 1
       IN /\ log' = prune(<<FlowEntry(id, diag.now, "running")>> \o log)
          /\ diag' = [diag EXCEPT !.started = id]
          /\ loc' = loc \cup {id}
          /\ fc' = [op |-> "startEntry", id |-> id]
    /\ UNCHANGED <<repo, pc, flow, payload, out>>

\* completeEntry 36-52: the entry with this id, if it is still stored, gets
\* its final status in place
CompleteEntry ==
    \E id \in loc, status \in {"success", "failed"} :
        /\ log' = [i \in 1..Len(log) |->
                      IF log[i].id = id THEN [log[i] EXCEPT !.status = status]
                      ELSE log[i]]
        /\ loc' = loc \ {id}
        /\ fc' = [op |-> "completeEntry", id |-> id]
        /\ UNCHANGED <<repo, pc, flow, payload, out, diag>>

\* clearEntries 68-70
ClearEntries ==
    /\ log # <<>>
    /\ log' = <<>>
    /\ fc' = [op |-> "clearEntries", id |-> 0]
    /\ UNCHANGED <<repo, pc, flow, payload, loc, out, diag>>

NextFlow == FlowTick \/ StartEntry \/ CompleteEntry \/ ClearEntries

FlowSpec == InitFlow /\ [][NextFlow]_vars

\* no entry is stored before a newer one
NewestFirst ==
    \A i \in 1..Len(log) : \A j \in i..Len(log) :
        log[i].startTime >= log[j].startTime

\* C40: the stored flow log never holds more than 150 entries and is always
\* ordered newest first; starting an entry when the log already holds 150
\* entries evicts the oldest entry.
C40_FlowLogBounded ==
    /\ [](Len(log) <= 150 /\ NewestFirst)
    /\ [][fc'.op = "startEntry" /\ Len(log) = 150 =>
             /\ Len(log') = 150
             /\ log'[1].id = fc'.id
             /\ \A i \in 2..150 : log'[i] = log[i - 1]]_vars

\* an entry was started on a full log: the log is full, its newest entry is
\* the one started, and the oldest of the stored ones is gone
C40_Witness ==
    /\ fc.op = "startEntry"
    /\ Len(log) = MAX_ENTRIES
    /\ log[1].id = diag.first + 1
    /\ log[MAX_ENTRIES].id = 2

====
